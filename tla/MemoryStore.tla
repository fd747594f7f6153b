---------------------------- MODULE MemoryStore ----------------------------
(***************************************************************************)
(* One guild's roles, or channels, in store/memory: a map from IDs to      *)
(* values and the guild's list of IDs.  Each operation runs under a mutex  *)
(* and is one step.  role.go and channel.go are the same code on different *)
(* types, and so one set of operators.                                     *)
(***************************************************************************)
EXTENDS Naturals, Sequences, SequencesExt

CONSTANTS
    IDs,        \* role or channel IDs of the guild
    Values,     \* what is stored of one
    NotFound    \* store.ErrNotFound

MemoryStores ==
    [of  : [IDs -> Values \cup {NotFound}],  \* the map
     ids : Seq(IDs)]                         \* the guild's list

NewStore == [of |-> [id \in IDs |-> NotFound], ids |-> <<>>]

\* Role, Channel: the map alone is asked.
Lookup(s, id) == s.of[id]

\* SetRole, SetChannel.
SetOne(s, id, value) ==
    [of  |-> [s.of EXCEPT ![id] = value],
     ids |-> IF Contains(s.ids, id) THEN s.ids ELSE Append(s.ids, id)]

\* SetRoles, SetChannels: one by one under one lock, so that those not listed yet
\* join the list; `values' maps the IDs that are set, among others.
SetMany(s, set, values) ==
    [of  |-> [id \in IDs |-> IF id \in set THEN values[id] ELSE s.of[id]],
     ids |-> s.ids \o SetToSeq({id \in set : ~Contains(s.ids, id)})]

\* What becomes of the list that `remove' is called with.  Its result, the
\* shorter slice, is thrown away by its callers; what is left is the shift in
\* the array underneath, and only when the ID is neither first nor last.
Shifted(ids, id) ==
    IF ~Contains(ids, id) THEN ids
    ELSE LET i == SelectInSeq(ids, LAMBDA x : x = id)
             n == Len(ids)
         IN  IF i \in {1, n} THEN ids
             ELSE [k \in 1..n |-> IF k < i \/ k = n THEN ids[k] ELSE ids[k + 1]]

\* RemoveRole, RemoveChannel.
RemoveOne(s, id) ==
    [of  |-> [s.of EXCEPT ![id] = NotFound],
     ids |-> Shifted(s.ids, id)]
=============================================================================
