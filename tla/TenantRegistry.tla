---------------------------- MODULE TenantRegistry ----------------------------
(***************************************************************************)
(* The choice of the person to call                                        *)
(* (src/src/orchestrator/tenant_registry.py, Cosmos backend; the backend   *)
(* that reads local files is the same without failing reads).              *)
(* Times of day are hours.                                                 *)
(***************************************************************************)
EXTENDS Sequences, SequencesExt, StableSort, CallModels

CONSTANTS
  Customer,     \* customers of the service
  Contact,      \* records [phone, priority, stores, always, from, to]
  Groups        \* the contact documents that exist: a function from GroupKey
                \* to sequences of contacts

\* The document ids "<customer>:<sop>", "<customer>", "<sop>" and "default".
GroupKey == (Customer \X {"customer:sop", "customer"}) \cup ({None} \X {"sop", "default"})

ASSUME RegistryAssumption ==
  /\ DOMAIN Groups \subseteq GroupKey
  /\ \A k \in DOMAIN Groups : Groups[k] \in Seq(Contact)
  /\ \A c \in Contact : c.priority \in Int

\* From the most specific to the least; an intent may name no customer.
Candidates(customer) ==
  (IF customer = None THEN << >>
   ELSE << <<customer, "customer:sop">>, <<customer, "customer">> >>)
  \o << <<None, "sop">>, <<None, "default">> >>

\* get_contact_group: any failure to read a document is taken for its absence.
GroupOf(customer, failing) ==
  LET keys == Candidates(customer)
      i == SelectInSeq(keys, LAMBDA k : k \in DOMAIN Groups \ failing) IN
  IF i = 0 THEN << >> ELSE Groups[keys[i]]

\* Contact.matches_store and Contact.in_call_window
MatchesStore(contact, store) == contact.stores = {} \/ store \in contact.stores

InCallWindow(contact, now) == contact.always \/ (contact.from <= now /\ now <= contact.to)

\* Mutant: the contacts stay in the document's order.
InDocumentOrder(customer, store, failing) ==
  SelectSeq(GroupOf(customer, failing), LAMBDA c : MatchesStore(c, store))

\* on_call: those who cover the store, by priority.
OnCall(customer, store, failing) ==
  LET contacts == GroupOf(customer, failing) IN
  SortedBy(contacts, {i \in DOMAIN contacts : MatchesStore(contacts[i], store)},
           [i \in DOMAIN contacts |-> contacts[i].priority])

\* resolve_primary: the number to call, << >> if nobody is on call.
PrimaryNumber(customer, store, now, failing) ==
  LET contacts == OnCall(customer, store, failing)
      i == SelectInSeq(contacts, LAMBDA c : InCallWindow(c, now)) IN
  IF i = 0 THEN << >> ELSE contacts[i].phone

\* What it promises: of the contacts in the most specific group that could be
\* read, one who may be called now about this store, and none of them before it.
IsPrimary(number, customer, store, now, failing) ==
  LET keys == Candidates(customer)
      readable == {i \in DOMAIN keys : keys[i] \in DOMAIN Groups \ failing} IN
  \E i \in readable :
    /\ \A j \in readable : i <= j
    /\ LET available == {c \in ToSet(Groups[keys[i]]) : MatchesStore(c, store) /\ InCallWindow(c, now)} IN
       \E c \in available : c.phone = number /\ \A d \in available : c.priority <= d.priority

=============================================================================
