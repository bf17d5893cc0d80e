---------------------------- MODULE GrantsProofs ----------------------------
(***************************************************************************)
(* Proofs about Grants, for every set of devices, nodes, rules and         *)
(* handlers: the shapes of its tables and transactions, that nothing       *)
(* outlives a grant, and that every step is one of AccessStore or leaves   *)
(* it as it is.  None of them needs the locks: they keep transactions      *)
(* apart so that each can end, and the foreign keys keep the tables right. *)
(***************************************************************************)
EXTENDS Grants, TLAPS

\* What a transaction has found out before its last statement, and what stays so
\* whatever is committed in between.
TxInv ==
    \A h \in Handlers :
      /\ tx[h].pc = "cascade" =>
           tx[h].target \in Target /\ (tx[h].target \in Clients => client[tx[h].target] # "absent")
      /\ tx[h].pc \in {"lockRules", "replace"} => tx[h].target \in Pairs
      /\ tx[h].pc = "setExit" => tx[h].target \in Pairs /\ tx[h].target[2] # HubNode

IInv == TypeOK /\ NothingOutlivesAGrant /\ TxInv

\* The tables without the transactions.
TablesOK ==
    /\ client \in [Clients -> {"absent", "enabled", "disabled", "gone"}]
    /\ node \in [Nodes -> {"inactive", "active", "gone"}]
    /\ grants \subseteq Pairs
    /\ exits \subseteq Pairs
    /\ rules \in [Pairs -> SUBSET Row]

TxOK == tx \in [Handlers -> Tx] /\ TxInv

tables == <<client, node, grants, exits, rules>>

\* The invariant in these two parts.
LEMMA Parts == IInv <=> TablesOK /\ NothingOutlivesAGrant /\ TxOK
BY DEF IInv, TypeOK, TablesOK, TxOK

\* A step that leaves the tables alone keeps what is said of them.
LEMMA TablesKept ==
    ASSUME TablesOK, NothingOutlivesAGrant, UNCHANGED tables
    PROVE  TablesOK' /\ NothingOutlivesAGrant'
BY DEF TablesOK, NothingOutlivesAGrant, tables

\* A transaction that ends has nothing to remember.
LEMMA EndsClean ==
    /\ Idle \in Tx /\ Idle.pc = "idle"
    /\ Committed \in Tx /\ Committed.pc = "committed"
<1>1. Idle \in Tx /\ Idle.pc = "idle"
  BY DEF Idle, Tx
<1> QED
  BY <1>1 DEF Committed, Tx

\* A transaction that ends, while no client becomes absent, keeps TxOK.
LEMMA Ends ==
    ASSUME TxOK, NEW h \in Handlers, Begin(h, Idle) \/ Commit(h),
           \A c \in Clients : client[c] # "absent" => client'[c] # "absent"
    PROVE  TxOK'
<1>1. PICK t \in {Idle, Committed} : tx' = [tx EXCEPT ![h] = t]
  BY DEF Begin, Commit
<1>2. t \in Tx /\ t.pc \in {"idle", "committed"}
  BY EndsClean
<1>3. tx' \in [Handlers -> Tx]
  BY <1>1, <1>2 DEF TxOK
<1>4. \A k \in Handlers : tx'[k] = tx[k] \/ tx'[k].pc \in {"idle", "committed"}
  BY <1>1, <1>2 DEF TxOK
<1>5. TxInv'
  BY <1>4 DEF TxOK, TxInv
<1> QED
  BY <1>3, <1>5 DEF TxOK

\* A transaction that goes on remembers what its first statement found.
LEMMA GoesOn ==
    ASSUME TxOK, NEW h \in Handlers, NEW t \in Tx, Begin(h, t), client' = client,
           /\ t.pc = "cascade" =>
                t.target \in Target /\ (t.target \in Clients => client[t.target] # "absent")
           /\ t.pc \in {"lockRules", "replace"} => t.target \in Pairs
           /\ t.pc = "setExit" => t.target \in Pairs /\ t.target[2] # HubNode
    PROVE  TxOK'
<1>1. tx' = [tx EXCEPT ![h] = t]
  BY DEF Begin
<1>2. \A k \in Handlers : tx'[k] = IF k = h THEN t ELSE tx[k]
  BY <1>1 DEF TxOK
<1>3. tx' \in [Handlers -> Tx]
  BY <1>1 DEF TxOK
<1>4. TxInv'
  BY <1>2 DEF TxOK, TxInv
<1> QED
  BY <1>3, <1>4 DEF TxOK

\* The invariant holds initially.
LEMMA GrantsStart == Init => IInv
<1> SUFFICES ASSUME Init PROVE IInv
  OBVIOUS
<1>1. TablesOK
  BY DEF Init, TablesOK
<1>2. NothingOutlivesAGrant
  BY DEF Init, NothingOutlivesAGrant
<1>3. TxOK
  BY EndsClean DEF Init, TxOK, TxInv
<1> QED
  BY <1>1, <1>2, <1>3, Parts

---------------------------------------------------------------------------
(* Statements that change the tables.                                      *)

\* Devices and nodes that exist stay, so do their grants.
LEMMA RowsKeep ==
    ASSUME TablesOK, NothingOutlivesAGrant, NEW h \in Handlers,
           \/ \E c \in Clients : \/ CreateClient(h, c)
                                 \/ \E s \in {"enabled", "disabled"} : UpdateClient(h, c, s)
           \/ \E n \in Nodes, s \in {"active", "inactive"} : SetNodeStatus(h, n, s)
    PROVE  /\ TablesOK' /\ NothingOutlivesAGrant' /\ Commit(h)
           /\ \A c \in Clients : client[c] # "absent" => client'[c] # "absent"
<1>1. ASSUME NEW c \in Clients, NEW s \in {"enabled", "disabled"},
             client[c] # "gone", client' = [client EXCEPT ![c] = s],
             UNCHANGED <<node, grants, exits, rules>>
      PROVE  /\ TablesOK' /\ NothingOutlivesAGrant'
             /\ \A d \in Clients : client[d] # "absent" => client'[d] # "absent"
  <2>1. TablesOK'
    BY <1>1 DEF TablesOK
  <2>2. \A d \in Clients : client[d] \in {"enabled", "disabled"} => client'[d] \in {"enabled", "disabled"}
    BY <1>1 DEF TablesOK
  <2>3. NothingOutlivesAGrant'
    BY <1>1, <2>2 DEF TablesOK, NothingOutlivesAGrant, Pairs
  <2> QED
    BY <1>1, <2>1, <2>3 DEF TablesOK
<1>2. ASSUME NEW n \in Nodes, NEW s \in {"active", "inactive"}, SetNodeStatus(h, n, s)
      PROVE  TablesOK' /\ NothingOutlivesAGrant' /\ client' = client
  <2>1. node' = [node EXCEPT ![n] = s] /\ UNCHANGED <<client, grants, exits, rules>>
    BY <1>2 DEF SetNodeStatus
  <2>2. \A m \in Nodes : node[m] # "gone" => node'[m] # "gone"
    BY <2>1 DEF TablesOK
  <2> QED
    BY <2>1, <2>2 DEF TablesOK, NothingOutlivesAGrant, Pairs
<1> QED
  BY <1>1, <1>2 DEF CreateClient, UpdateClient, SetNodeStatus

\* A grant is of a device and a node that exist.
LEMMA SetGrantKeeps ==
    ASSUME TablesOK, NothingOutlivesAGrant, NEW h \in Handlers, NEW g \in Pairs, SetGrant(h, g)
    PROVE  TablesOK' /\ NothingOutlivesAGrant'
BY DEF SetGrant, TablesOK, NothingOutlivesAGrant

\* A deletion takes all that refers to the row with it.
LEMMA CascadeKeeps ==
    ASSUME TablesOK, NothingOutlivesAGrant, NEW h \in Handlers, CascadeDelete(h)
    PROVE  /\ TablesOK' /\ NothingOutlivesAGrant'
           /\ \A c \in Clients : client[c] # "absent" => client'[c] # "absent"
<1> DEFINE t == tx[h].target
<1>1. /\ grants' = grants \ Doomed(t) /\ exits' = exits \ Doomed(t)
      /\ rules' = [g \in Pairs |-> IF g \in Doomed(t) THEN {} ELSE rules[g]]
      /\ client' = [c \in Clients |-> IF c = t THEN "gone" ELSE client[c]]
      /\ node' = [n \in Nodes |-> IF n = t THEN "gone" ELSE node[n]]
  BY DEF CascadeDelete, Remove
<1> HIDE DEF t
<1>2. TablesOK'
  BY <1>1 DEF TablesOK
<1>3. \A g \in grants' : client'[g[1]] = client[g[1]] /\ node'[g[2]] = node[g[2]]
  BY <1>1 DEF TablesOK, Doomed, Pairs
<1>4. NothingOutlivesAGrant'
  BY <1>1, <1>3 DEF NothingOutlivesAGrant
<1> QED
  BY <1>1, <1>2, <1>4

\* The foreign key: what SetGrantRules inserts has its grant.
LEMMA ReplaceKeeps ==
    ASSUME TablesOK, TxOK, NothingOutlivesAGrant, NEW h \in Handlers, ReplaceRules(h)
    PROVE  TablesOK' /\ NothingOutlivesAGrant'
<1> DEFINE g == tx[h].target
           kept == rules[g] \ tx[h].seen
           new == tx[h].new \X {h}
<1>1. /\ rules' = [rules EXCEPT ![g] = kept \cup new]
      /\ UNCHANGED <<client, node, grants, exits>>
      /\ tx[h].new # {} => g \in grants
  BY DEF ReplaceRules, ForeignKeyHolds
<1>2. g \in Pairs /\ tx[h].new \subseteq Rules
  BY DEF ReplaceRules, TxOK, TxInv, Tx
<1>3. kept \subseteq Row /\ new \subseteq Row
  BY <1>2 DEF TablesOK, Row
<1>4. kept \cup new # {} => g \in grants
  BY <1>1, <1>2 DEF NothingOutlivesAGrant
<1> HIDE DEF g, kept, new
<1>5. TablesOK'
  BY <1>1, <1>2, <1>3 DEF TablesOK
<1>6. \A x \in Pairs : rules'[x] # {} => x \in grants
  BY <1>1, <1>2, <1>4 DEF TablesOK, NothingOutlivesAGrant
<1> QED
  BY <1>1, <1>5, <1>6 DEF NothingOutlivesAGrant

\* The UPDATE finds the grant or changes no row.
LEMMA UpdateExitKeeps ==
    ASSUME TablesOK, NothingOutlivesAGrant, NEW h \in Handlers, UpdateExit(h)
    PROVE  TablesOK' /\ NothingOutlivesAGrant'
BY DEF UpdateExit, TablesOK, NothingOutlivesAGrant

\* First statements, and what fails: they leave the tables alone.
Looks(h) ==
    \/ \E t \in Target : BeginDelete(h, t)
    \/ \E g \in Pairs : \/ \E R \in SUBSET Rules : CheckRules(h, g, R)
                        \/ \E on \in BOOLEAN : CheckExit(h, g, on)
    \/ DeleteRules(h) \/ RulesOrphaned(h) \/ DeadlockVictim(h) \/ Rollback(h) \/ Leave(h)

\* They change what one transaction remembers, or end it.
LEMMA LooksKeep ==
    ASSUME IInv, NEW h \in Handlers, Looks(h)
    PROVE  IInv' /\ UNCHANGED tables
<1>1. UNCHANGED tables
  BY DEF Looks, BeginDelete, CheckRules, CheckExit, DeleteRules, RulesOrphaned, DeadlockVictim,
         Rollback, Leave, tables
<1>2. TablesOK /\ NothingOutlivesAGrant /\ TxOK
  BY Parts
<1>3. ASSUME NEW t \in Target, BeginDelete(h, t) PROVE TxOK'
  <2> DEFINE n == [Idle EXCEPT !.pc = "cascade", !.target = t]
  <2>1. n \in Tx /\ n.pc = "cascade" /\ n.target = t
    BY EndsClean DEF Tx
  <2>2. t \in Clients => client[t] # "absent"
    BY <1>2, <1>3, GrantsAssumption DEF BeginDelete, Deletable, TablesOK, Pairs
  <2>3. Begin(h, n) /\ client' = client
    BY <1>3 DEF BeginDelete
  <2> HIDE DEF n
  <2> QED
    BY <1>2, <2>1, <2>2, <2>3, GoesOn
<1>4. ASSUME NEW g \in Pairs, NEW R \in SUBSET Rules, CheckRules(h, g, R) PROVE TxOK'
  <2> DEFINE n == [Idle EXCEPT !.pc = "lockRules", !.target = g, !.seen = rules[g], !.new = R]
  <2>1. n \in Tx /\ n.pc = "lockRules" /\ n.target = g
    BY <1>2, EndsClean DEF Tx, Target, TablesOK
  <2>2. Begin(h, n) /\ client' = client
    BY <1>4 DEF CheckRules
  <2> HIDE DEF n
  <2> QED
    BY <1>2, <2>1, <2>2, GoesOn
<1>5. ASSUME NEW g \in Pairs, NEW on \in BOOLEAN, CheckExit(h, g, on) PROVE TxOK'
  <2> DEFINE n == [Idle EXCEPT !.pc = "setExit", !.target = g, !.exit = on]
  <2>1. n \in Tx /\ n.pc = "setExit" /\ n.target = g
    BY EndsClean DEF Tx, Target
  <2>2. Begin(h, n) /\ client' = client /\ g[2] # HubNode
    BY <1>5 DEF CheckExit
  <2> HIDE DEF n
  <2> QED
    BY <1>2, <2>1, <2>2, GoesOn
<1>6. ASSUME DeleteRules(h) PROVE TxOK'
  <2> DEFINE n == [tx[h] EXCEPT !.pc = "replace", !.seen = @ \cap rules[tx[h].target]]
  <2>1. tx[h] \in Tx /\ tx[h].target \in Pairs
    BY <1>2, <1>6 DEF DeleteRules, TxOK, TxInv
  <2>2. n \in Tx /\ n.pc = "replace" /\ n.target = tx[h].target
    BY <2>1 DEF Tx
  <2>3. Begin(h, n) /\ client' = client
    BY <1>6 DEF DeleteRules
  <2> HIDE DEF n
  <2> QED
    BY <1>2, <2>1, <2>2, <2>3, GoesOn
<1>7. ASSUME RulesOrphaned(h) \/ DeadlockVictim(h) \/ Rollback(h) \/ Leave(h) PROVE TxOK'
  <2>1. Begin(h, Idle) /\ client' = client
    BY <1>7 DEF RulesOrphaned, DeadlockVictim, Rollback, Leave
  <2> QED
    BY <1>2, <2>1, Ends
<1>8. TxOK'
  BY <1>3, <1>4, <1>5, <1>6, <1>7 DEF Looks
<1>9. TablesOK' /\ NothingOutlivesAGrant'
  BY <1>1, <1>2, TablesKept
<1> QED
  BY <1>1, <1>8, <1>9 DEF IInv, TypeOK, TablesOK, TxOK

\* Statements that commit.
Changes(h) ==
    \/ \E c \in Clients : \/ CreateClient(h, c)
                          \/ \E s \in {"enabled", "disabled"} : UpdateClient(h, c, s)
    \/ \E n \in Nodes \ {HubNode}, s \in {"active", "inactive"} : SetNodeStatus(h, n, s)
    \/ \E g \in Pairs : SetGrant(h, g)
    \/ CascadeDelete(h) \/ ReplaceRules(h) \/ UpdateExit(h)

\* They keep the invariant.
LEMMA ChangesKeep ==
    ASSUME IInv, NEW h \in Handlers, Changes(h)
    PROVE  IInv'
<1>1. TablesOK /\ NothingOutlivesAGrant /\ TxOK
  BY Parts
<1>2. TablesOK' /\ NothingOutlivesAGrant' /\ Commit(h)
  BY <1>1, RowsKeep, SetGrantKeeps, CascadeKeeps, ReplaceKeeps, UpdateExitKeeps
     DEF Changes, SetGrant, CascadeDelete, ReplaceRules, UpdateExit
<1>3. \A c \in Clients : client[c] # "absent" => client'[c] # "absent"
  BY <1>1, RowsKeep, CascadeKeeps DEF Changes, SetGrant, ReplaceRules, UpdateExit
<1>4. TxOK'
  BY <1>1, <1>2, <1>3, Ends
<1> QED
  BY <1>2, <1>4 DEF IInv, TypeOK, TablesOK, TxOK

\* Every step is of one of these kinds.
LEMMA StepKinds == Next => \E h \in Handlers : Looks(h) \/ Changes(h)
BY DEF Next, StoreStep, BeginRequest, NextStatement, Looks, Changes

\* Every step of the specification keeps the invariant.
LEMMA GrantsInduction ==
    ASSUME IInv, [Next]_storeVars
    PROVE  IInv'
<1>1. CASE UNCHANGED storeVars
  BY <1>1 DEF storeVars, IInv, TypeOK, NothingOutlivesAGrant, TxInv
<1>2. CASE Next
  BY <1>2, StepKinds, LooksKeep, ChangesKeep
<1> QED
  BY <1>1, <1>2

\* It holds throughout every behaviour.
LEMMA GrantsInvariant == Spec => []IInv
BY GrantsStart, GrantsInduction, PTL DEF Spec

\* The tables and the open transactions have their shapes, whatever interleaves.
THEOREM GrantsTypeCorrect == Spec => []TypeOK
BY GrantsInvariant, PTL DEF IInv

\* A grant that was revoked leaves no rules and no exit behind, and every grant is of
\* a device and a node that exist, although SetGrantRules and SetGrantExit check the
\* grant in one statement and write in another.
THEOREM GrantsLeaveNothing == Spec => []NothingOutlivesAGrant
BY GrantsInvariant, PTL DEF IInv

---------------------------------------------------------------------------
(* The transactions implement AccessStore.                                 *)

\* What AccessStore calls access: the columns of a grant's rules.
Columns(rows) == {r[1] : r \in rows}
Access == [g \in Pairs |-> IF g \in grants THEN Columns(rules[g]) ELSE {Nil}]

\* A grant without rules and no grant are told apart: no rule is Nil.
LEMMA GrantedAreGrants ==
    ASSUME IInv
    PROVE  /\ Store!Granted = grants
           /\ \A t : Store!Exists(t) <=> Deletable(t)
<1>1. \A g \in grants : Columns(rules[g]) # {Nil}
  <2> SUFFICES ASSUME NEW g \in grants PROVE Nil \notin Columns(rules[g])
    OBVIOUS
  <2>1. rules[g] \subseteq Row
    BY DEF IInv, TypeOK
  <2> QED
    BY <2>1, GrantsAssumption DEF Row, Columns
<1>2. \A g \in Pairs : Access[g] # {Nil} <=> g \in grants
  BY <1>1 DEF Access
<1>3. Store!Granted = {g \in Pairs : Access[g] # {Nil}}
  BY DEF Store!Granted, Store!Pairs, Store!NoAccess, Access, Columns, Pairs
<1>4. Store!Granted = grants
  BY <1>2, <1>3 DEF IInv, TypeOK
<1> QED
  BY <1>4 DEF Store!Exists, Deletable

\* The store starts empty.
LEMMA StoreStarts == Init => Store!StoreInit
BY DEF Init, Store!StoreInit, Store!Pairs, Store!NoAccess, Pairs

\* What does not touch the tables is no step of the store.
LEMMA LooksStutter ==
    ASSUME UNCHANGED tables
    PROVE  UNCHANGED Store!dbVars
BY DEF tables, Store!dbVars

\* The steps of one device or node are those of the store.
LEMMA RowsImplement ==
    ASSUME IInv, NEW h \in Handlers,
           \/ \E c \in Clients : \/ CreateClient(h, c)
                                 \/ \E s \in {"enabled", "disabled"} : UpdateClient(h, c, s)
           \/ \E n \in Nodes \ {HubNode}, s \in {"active", "inactive"} : SetNodeStatus(h, n, s)
    PROVE  Store!StoreNext
<1>1. ASSUME NEW c \in Clients, CreateClient(h, c) PROVE Store!CreateClient(c)
  BY <1>1 DEF CreateClient, Store!CreateClient
<1>2. ASSUME NEW c \in Clients, NEW s \in {"enabled", "disabled"}, UpdateClient(h, c, s)
      PROVE  Store!UpdateClient(c, s)
  BY <1>2 DEF UpdateClient, Store!UpdateClient, Store!Exists
<1>3. ASSUME NEW n \in Nodes \ {HubNode}, NEW s \in {"active", "inactive"}, SetNodeStatus(h, n, s)
      PROVE  Store!SetNodeStatus(n, s)
  BY <1>3 DEF SetNodeStatus, Store!SetNodeStatus, Store!Exists
<1> QED
  BY <1>1, <1>2, <1>3 DEF Store!StoreNext

\* A new grant has no rules left from before: NothingOutlivesAGrant.
LEMMA SetGrantImplements ==
    ASSUME IInv, NEW h \in Handlers, NEW g \in Pairs, SetGrant(h, g)
    PROVE  Store!SetGrant(g)
<1>1. Access' = [Access EXCEPT ![g] = IF @ = {Nil} THEN {} ELSE @]
  <2>1. g \notin grants => Columns(rules[g]) = {}
    BY DEF IInv, NothingOutlivesAGrant, Columns
  <2>2. g \in grants => Access[g] # {Nil}
    BY GrantedAreGrants DEF Store!Granted, Store!Pairs, Store!NoAccess, Access, Columns, Pairs
  <2>3. grants' = grants \cup {g} /\ rules' = rules
    BY DEF SetGrant
  <2>4. Access' = [x \in Pairs |-> IF x \in grants' THEN Columns(rules[x]) ELSE {Nil}]
    BY <2>3 DEF Access
  <2> QED
    BY <2>1, <2>2, <2>3, <2>4 DEF Access
<1>2. Store!Exists(g[1]) /\ Store!Exists(g[2])
  BY DEF SetGrant, Store!Exists, Pairs
<1>3. UNCHANGED <<client, node, exits>>
  BY DEF SetGrant
<1> QED
  BY <1>1, <1>2, <1>3 DEF Store!SetGrant, Store!NoAccess, Store!Unlimited, Access, Columns

\* A deletion whose row another one took meanwhile deletes nothing.
LEMMA DeleteImplements ==
    ASSUME IInv, NEW h \in Handlers, CascadeDelete(h)
    PROVE  Store!StoreNext \/ UNCHANGED Store!dbVars
<1> PICK t : t = tx[h].target
  OBVIOUS
<1>1. /\ grants' = grants \ Doomed(t) /\ exits' = exits \ Doomed(t)
      /\ rules' = [g \in Pairs |-> IF g \in Doomed(t) THEN {} ELSE rules[g]]
      /\ client' = [c \in Clients |-> IF c = t THEN "gone" ELSE client[c]]
      /\ node' = [n \in Nodes |-> IF n = t THEN "gone" ELSE node[n]]
  BY DEF CascadeDelete, Remove
<1>2. t \in Target /\ (t \in Clients => client[t] # "absent")
  BY DEF CascadeDelete, IInv, TxInv
<1>3. Access' = [g \in Pairs |-> IF g \in Doomed(t) THEN {Nil} ELSE Access[g]]
  <2>1. Access' = [g \in Pairs |-> IF g \in grants' THEN Columns(rules'[g]) ELSE {Nil}]
    BY DEF Access
  <2> QED
    BY <1>1, <2>1 DEF Access
<1>4. CASE Deletable(t)
  <2>1. Store!Exists(t)
    BY <1>4, GrantedAreGrants
  <2>2. Store!Delete(t)
    BY <1>1, <1>3, <2>1
       DEF Store!Delete, Store!Doomed, Store!Pairs, Store!NoAccess, Doomed, Pairs, Access, Columns
  <2> QED
    BY <1>2, <2>2 DEF Store!StoreNext, Store!Target, Store!Pairs, Target, Pairs
<1>5. CASE ~ Deletable(t)
  <2>1. \A g \in grants : g \notin Doomed(t)
    BY <1>5 DEF Doomed, Deletable, IInv, NothingOutlivesAGrant, Pairs
  <2>2. \A g \in Pairs : g \in Doomed(t) => Access[g] = {Nil}
    BY <2>1 DEF Access
  <2>3. Access' = Access
    BY <1>3, <2>2 DEF Access
  <2>4. exits' = exits
    BY <1>1, <2>1 DEF IInv, NothingOutlivesAGrant
  <2>5. client' = client
    BY <1>1, <1>2, <1>5 DEF IInv, TypeOK, Deletable
  <2>6. node' = node
    BY <1>1, <1>5 DEF IInv, TypeOK, Deletable
  <2> QED
    BY <2>3, <2>4, <2>5, <2>6 DEF Store!dbVars, Access, Columns
<1> QED
  BY <1>4, <1>5

\* The rules submitted and some that were there; none, when the grant has gone.
LEMMA ReplaceImplements ==
    ASSUME IInv, NEW h \in Handlers, ReplaceRules(h)
    PROVE  Store!StoreNext \/ UNCHANGED Store!dbVars
<1> PICK g, R, old : g = tx[h].target /\ R = tx[h].new /\ old = rules[g] \ tx[h].seen
  OBVIOUS
<1> DEFINE kept == Columns(old)
<1>1. /\ rules' = [rules EXCEPT ![g] = (@ \ tx[h].seen) \cup (R \X {h})]
      /\ UNCHANGED <<client, node, grants, exits>>
      /\ R # {} => g \in grants
  BY DEF ReplaceRules, ForeignKeyHolds
<1>2. g \in Pairs /\ R \in SUBSET Rules /\ rules \in [Pairs -> SUBSET Row]
  BY DEF ReplaceRules, IInv, TypeOK, TxInv, Tx
<1>3. Columns(old \cup (R \X {h})) = R \cup kept
  <2>1. Columns(old \cup (R \X {h})) = kept \cup Columns(R \X {h})
    BY DEF Columns
  <2>2. Columns(R \X {h}) = R
    <3>1. \A x \in R : <<x, h>> \in R \X {h} /\ <<x, h>>[1] = x
      OBVIOUS
    <3>2. \A r \in R \X {h} : r[1] \in R
      OBVIOUS
    <3>3. R \subseteq Columns(R \X {h})
      BY <3>1, Zenon DEF Columns
    <3>4. Columns(R \X {h}) \subseteq R
      BY <3>2, Zenon DEF Columns
    <3> QED
      BY <3>3, <3>4
  <2> QED
    BY <2>1, <2>2
<1>4. kept \in SUBSET Columns(rules[g])
  BY DEF Columns
<1>5. Access' = [x \in Pairs |-> IF x \in grants THEN Columns(rules'[x]) ELSE {Nil}]
  BY <1>1 DEF Access
<1> HIDE DEF kept
<1>6. CASE g \in grants
  <2>1. Access' = [Access EXCEPT ![g] = R \cup kept]
    <3>1. rules'[g] = old \cup (R \X {h})
      BY <1>1, <1>2
    <3>2. Columns(rules'[g]) = R \cup kept
      BY <1>3, <3>1
    <3>3. \A x \in Pairs : x # g => rules'[x] = rules[x]
      BY <1>1, <1>2
    <3> QED
      BY <1>2, <1>5, <1>6, <3>2, <3>3 DEF Access
  <2>2. kept \in SUBSET Access[g]
    BY <1>2, <1>4, <1>6 DEF Access
  <2>3. Store!SetGrantRules(g, R)
    BY <1>1, <1>6, <2>1, <2>2, GrantedAreGrants DEF Store!SetGrantRules, Access, Columns
  <2> QED
    BY <1>2, <2>3 DEF Store!StoreNext, Store!Pairs, Pairs
<1>7. CASE g \notin grants
  <2>1. \A x \in grants : rules'[x] = rules[x]
    BY <1>1, <1>2, <1>7 DEF IInv, TypeOK
  <2>2. Access' = Access
    BY <1>5, <2>1 DEF Access
  <2> QED
    BY <1>1, <2>2 DEF Store!dbVars, Access, Columns
<1> QED
  BY <1>6, <1>7

\* An exit set on a grant that has gone changes no row.
LEMMA UpdateExitImplements ==
    ASSUME IInv, NEW h \in Handlers, UpdateExit(h)
    PROVE  Store!StoreNext \/ UNCHANGED Store!dbVars
<1> DEFINE g == tx[h].target
           on == tx[h].exit
<1>1. /\ exits' = IF on THEN exits \cup ({g} \cap grants) ELSE exits \ {g}
      /\ UNCHANGED <<client, node, grants, rules>>
  BY DEF UpdateExit
<1>2. g \in Pairs /\ g[2] # HubNode /\ on \in BOOLEAN
  BY DEF UpdateExit, IInv, TypeOK, TxInv, Tx
<1>3. Access' = Access
  BY <1>1 DEF Access
<1> HIDE DEF g, on
<1>4. CASE g \in grants
  <2>1. Store!SetGrantExit(g, on)
    BY <1>1, <1>2, <1>3, <1>4, GrantedAreGrants DEF Store!SetGrantExit, Access, Columns
  <2> QED
    BY <1>2, <2>1 DEF Store!StoreNext, Store!Pairs, Pairs
<1>5. CASE g \notin grants
  <2>1. exits' = exits
    BY <1>1, <1>5 DEF IInv, NothingOutlivesAGrant
  <2> QED
    BY <1>1, <1>3, <2>1 DEF Store!dbVars, Access, Columns
<1> QED
  BY <1>4, <1>5

\* Every step is one of the store or leaves it as it is.
LEMMA StepImplements ==
    ASSUME IInv, [Next]_storeVars
    PROVE  [Store!StoreNext]_(Store!dbVars)
<1>1. CASE UNCHANGED storeVars
  BY <1>1, LooksStutter DEF storeVars, tables
<1>2. ASSUME NEW h \in Handlers, Looks(h) PROVE UNCHANGED Store!dbVars
  BY <1>2, LooksKeep, LooksStutter
<1>3. ASSUME NEW h \in Handlers, Changes(h)
      PROVE  Store!StoreNext \/ UNCHANGED Store!dbVars
  <2>1. ASSUME NEW g \in Pairs, SetGrant(h, g) PROVE Store!StoreNext
    BY <2>1, SetGrantImplements DEF Store!StoreNext, Store!Pairs, Pairs
  <2> QED
    BY <1>3, <2>1, RowsImplement, DeleteImplements, ReplaceImplements, UpdateExitImplements
       DEF Changes
<1> QED
  BY <1>1, <1>2, <1>3, StepKinds

\* Every behaviour of the interleaved transactions is one of the store that Reconcile
\* reads, one commit at a time.
THEOREM GrantsImplementStore == Spec => ImplementsAccessStore
BY StoreStarts, StepImplements, GrantsInvariant, PTL DEF Spec, ImplementsAccessStore, Store!StoreSpec
=============================================================================
