---------------------------- MODULE GroupsProofs ----------------------------
EXTENDS Groups, FiniteSetTheorems, SequenceTheorems, TLAPS

---------------------------------------------------------------------------
(* Sequences of calls.  What the proofs need of one is which calls it is   *)
(* of: nothing of what follows depends on their order.                     *)

\* Every element of a finite set has its turn in each of its sequences.
LEMMA SeqsOf ==
    ASSUME NEW S, IsFiniteSet(S), NEW s \in SetToSeqs(S)
    PROVE  s \in Seq(S) /\ Len(s) \in Nat /\ DOMAIN s = 1..Len(s) /\ Range(s) = S
<1> DEFINE n == Cardinality(S)
<1>1. n \in Nat
  BY FS_CardinalityType
<1>2. s \in [1..n -> S] /\ \A i, j \in 1..n : i # j => s[i] # s[j]
  BY DEF SetToSeqs
<1>3. s \in Injection(1..n, S)
  BY <1>2 DEF Injection, IsInjective
<1>4. IsFiniteSet(1..n) /\ Cardinality(1..n) = n
  BY <1>1, FS_Interval
<1>5. s \in Surjection(1..n, S)
  BY <1>3, <1>4, FS_Injection
<1>6. Range(s) = S
  BY <1>2, <1>5 DEF Surjection, Range
<1>7. s \in Seq(S) /\ Len(s) = n
  BY <1>1, <1>2
<1> QED BY <1>1, <1>2, <1>6, <1>7

\* Nothing is on its way exactly when no call is.
LEMMA RangeOfEmpty ==
    ASSUME NEW X, NEW s \in Seq(X)
    PROVE  s = <<>> <=> Range(s) = {}
<1>1. ASSUME s # <<>> PROVE Range(s) # {}
  <2>1. 1 \in DOMAIN s
    BY <1>1
  <2> QED BY <2>1 DEF Range
<1>2. ASSUME s = <<>> PROVE Range(s) = {}
  <2>1. DOMAIN s = {}
    BY <1>2
  <2> QED BY <2>1 DEF Range
<1> QED BY <1>1, <1>2

\* The first call, and the others.
LEMMA RangeOfRest ==
    ASSUME NEW X, NEW s \in Seq(X), s # <<>>
    PROVE  /\ Head(s) \in X /\ Tail(s) \in Seq(X)
           /\ Range(s) = {Head(s)} \cup Range(Tail(s))
<1>1. Head(s) = s[1] /\ Tail(s) \in Seq(X) /\ Len(Tail(s)) = Len(s) - 1 /\ Len(s) >= 1 /\ Len(s) \in Nat
  OBVIOUS
<1>2. \A i \in 1..Len(Tail(s)) : Tail(s)[i] = s[i + 1]
  OBVIOUS
<1>3. Range(s) = {s[i] : i \in 1..Len(s)} /\ Range(Tail(s)) = {Tail(s)[i] : i \in 1..Len(Tail(s))}
  BY <1>1, RangeEquality
<1>4. \A i \in 1..Len(s) : i = 1 \/ (i - 1 \in 1..Len(Tail(s)) /\ s[i] = Tail(s)[i - 1])
  BY <1>1, <1>2
<1>5. \A i \in 1..Len(Tail(s)) : i + 1 \in 1..Len(s)
  BY <1>1
<1>6. Head(s) \in Range(s)
  BY <1>1, <1>3
<1>7. Range(Tail(s)) \subseteq Range(s)
  BY <1>2, <1>3, <1>5
<1>8. ASSUME NEW i \in 1..Len(s) PROVE s[i] \in {Head(s)} \cup Range(Tail(s))
  BY <1>1, <1>3, <1>4
<1>9. Range(s) \subseteq {Head(s)} \cup Range(Tail(s))
  BY <1>3, <1>8
<1>10. Head(s) \in X
  BY <1>1
<1> QED BY <1>1, <1>6, <1>7, <1>9, <1>10

\* The kinds of call a flow makes.
Kinds == {"create", "grant", "revoke", "copy", "exit", "rules", "place"}

\* A call made with CallOn is a call, and says what it was made of.
LEMMA CallShape ==
    ASSUME NEW op \in Kinds, NEW c \in Clients, NEW n \in Nodes
    PROVE  /\ CallOn(op, c, n) \in Call
           /\ CallOn(op, c, n).op = op /\ CallOn(op, c, n).on = <<c, n>>
           /\ \A of \in Clients :
                LET k == [CallOn(op, c, n) EXCEPT !.of = of]
                IN  k \in Call /\ k.op = op /\ k.on = <<c, n>> /\ k.of = of
           /\ \A exit \in BOOLEAN :
                LET k == [CallOn(op, c, n) EXCEPT !.exit = exit]
                IN  k \in Call /\ k.op = op /\ k.on = <<c, n>> /\ k.exit = exit
           /\ \A R \in SUBSET Rules :
                LET k == [CallOn(op, c, n) EXCEPT !.rules = R]
                IN  k \in Call /\ k.op = op /\ k.on = <<c, n>> /\ k.rules = R
BY DEF CallOn, Call, Kinds, Pairs

\* A call for each pair of a set.
LEMMA OneByOneCalls ==
    ASSUME NEW op \in Kinds, NEW S \in SUBSET Pairs, NEW calls \in OneByOne(op, S)
    PROVE  /\ calls \in Seq(Call)
           /\ \A k \in Range(calls) : k.op = op /\ k.on \in S
           /\ \A x \in S : \E k \in Range(calls) : k.op = op /\ k.on = x
<1>1. IsFiniteSet(S)
  BY FS_Product, FS_Subset, GroupsAssumption DEF Pairs
<1>2. PICK s \in SetToSeqs(S) : calls = [i \in DOMAIN s |-> CallOn(op, s[i][1], s[i][2])]
  BY DEF OneByOne
<1>3. s \in Seq(S) /\ Len(s) \in Nat /\ DOMAIN s = 1..Len(s) /\ Range(s) = S
  BY <1>1, SeqsOf
<1>4. \A i \in 1..Len(s) : s[i] \in S /\ s[i][1] \in Clients /\ s[i][2] \in Nodes /\ s[i] = <<s[i][1], s[i][2]>>
  BY <1>3 DEF Pairs
<1>5. \A i \in 1..Len(s) : calls[i] \in Call /\ calls[i].op = op /\ calls[i].on = s[i]
  <2> SUFFICES ASSUME NEW i \in 1..Len(s)
               PROVE  calls[i] \in Call /\ calls[i].op = op /\ calls[i].on = s[i]
    OBVIOUS
  <2>1. calls[i] = CallOn(op, s[i][1], s[i][2])
    BY <1>2, <1>3
  <2> QED BY <1>4, <2>1, CallShape
<1>6. calls \in [1..Len(s) -> Call]
  BY <1>2, <1>3, <1>5
<1>7. calls \in Seq(Call) /\ DOMAIN calls = 1..Len(s)
  BY <1>3, <1>6
<1>8. \A x \in S : \E i \in 1..Len(s) : s[i] = x
  BY <1>3 DEF Range
<1>9. \A k \in Range(calls) : \E i \in 1..Len(s) : k = calls[i]
  BY <1>7 DEF Range
<1>10. \A i \in 1..Len(s) : calls[i] \in Range(calls)
  BY <1>7 DEF Range
<1> QED BY <1>4, <1>5, <1>7, <1>8, <1>9, <1>10

\* A copy for each node of the target that some member reaches, from such a member.
CopiesOf(b, S, c, target, calls) ==
    /\ calls \in Seq(Call)
    /\ \A k \in Range(calls) :
         \E n \in target : \E m \in Shown(b, S) :
           n \in view[b][m] /\ k.op = "copy" /\ k.on = <<c, n>> /\ k.of = m
    /\ \A n \in target : \A m \in Shown(b, S) :
         n \in view[b][m] => \E k \in Range(calls) : k.op = "copy" /\ k.on = <<c, n>>

\* joinGroup's last calls (AccessGraph.tsx) are such copies.
LEMMA CopyCalls ==
    ASSUME NEW b \in Browsers, NEW S \in SUBSET Clients, NEW c \in Clients, NEW target \in SUBSET Nodes,
           NEW calls \in Copies(b, S, c, target)
    PROVE  CopiesOf(b, S, c, target, calls)
<1> DEFINE reps(n) == {m \in Shown(b, S) : n \in view[b][m]}
           T == {n \in target : reps(n) # {}}
<1>1. PICK rep \in {r \in [target -> Clients \cup {Nil}] :
                      \A n \in target : IF reps(n) = {} THEN r[n] = Nil ELSE r[n] \in reps(n)} :
        calls \in {[i \in DOMAIN s |-> [CallOn("copy", c, s[i]) EXCEPT !.of = rep[s[i]]]] : s \in SetToSeqs(T)}
  BY Zenon DEF Copies
<1>2. PICK s \in SetToSeqs(T) : calls = [i \in DOMAIN s |-> [CallOn("copy", c, s[i]) EXCEPT !.of = rep[s[i]]]]
  BY <1>1
<1>3. IsFiniteSet(T) /\ T \subseteq Nodes
  BY FS_Subset, GroupsAssumption
<1>4. s \in Seq(T) /\ Len(s) \in Nat /\ DOMAIN s = 1..Len(s) /\ Range(s) = T
  BY <1>3, SeqsOf
<1>5. \A i \in 1..Len(s) : s[i] \in T /\ rep[s[i]] \in reps(s[i]) /\ rep[s[i]] \in Clients
  BY <1>1, <1>4 DEF Shown
<1>6. \A i \in 1..Len(s) :
        calls[i] \in Call /\ calls[i].op = "copy" /\ calls[i].on = <<c, s[i]>> /\ calls[i].of = rep[s[i]]
  <2> SUFFICES ASSUME NEW i \in 1..Len(s)
               PROVE  /\ calls[i] \in Call /\ calls[i].op = "copy"
                      /\ calls[i].on = <<c, s[i]>> /\ calls[i].of = rep[s[i]]
    OBVIOUS
  <2>1. calls[i] = [CallOn("copy", c, s[i]) EXCEPT !.of = rep[s[i]]]
    BY <1>2, <1>4
  <2>2. s[i] \in Nodes /\ rep[s[i]] \in Clients
    BY <1>3, <1>5
  <2> QED BY <2>1, <2>2, CallShape DEF Kinds
<1>7. calls \in [1..Len(s) -> Call]
  BY <1>2, <1>4, <1>6
<1>8. calls \in Seq(Call) /\ DOMAIN calls = 1..Len(s)
  BY <1>4, <1>7
<1>9. \A n \in T : \E i \in 1..Len(s) : s[i] = n
  BY <1>4 DEF Range
<1>10. \A k \in Range(calls) : \E i \in 1..Len(s) : k = calls[i]
  BY <1>8 DEF Range
<1>11. \A i \in 1..Len(s) : calls[i] \in Range(calls)
  BY <1>8 DEF Range
<1>12. ASSUME NEW k \in Range(calls)
       PROVE  \E n \in target : \E m \in Shown(b, S) :
                n \in view[b][m] /\ k.op = "copy" /\ k.on = <<c, n>> /\ k.of = m
  BY <1>5, <1>6, <1>10
<1>13. ASSUME NEW n \in target, NEW m \in Shown(b, S), n \in view[b][m]
       PROVE  \E k \in Range(calls) : k.op = "copy" /\ k.on = <<c, n>>
  BY <1>6, <1>9, <1>11, <1>13
<1> QED BY <1>8, <1>12, <1>13 DEF CopiesOf

\* A save sets the exit and the rules of each device, and does nothing else.
SavesOf(S, n, exit, R, calls) ==
    /\ calls \in Seq(Call)
    /\ \A k \in Range(calls) :
         /\ k.on \in S \X {n}
         /\ (k.op = "exit" /\ k.exit = exit) \/ (k.op = "rules" /\ k.rules = R)
    /\ \A c \in S : /\ \E k \in Range(calls) : k.op = "exit" /\ k.on = <<c, n>>
                    /\ \E k \in Range(calls) : k.op = "rules" /\ k.on = <<c, n>>

\* RulesModal's save makes such calls (RulesModal.tsx).
LEMMA SaveRulesCalls ==
    ASSUME NEW S \in SUBSET Clients, NEW n \in Nodes, NEW exit \in BOOLEAN, NEW R \in SUBSET Rules,
           NEW s \in SetToSeqs(S), NEW calls, calls = SaveCalls(s, n, exit, R)
    PROVE  SavesOf(S, n, exit, R, calls)
<1> DEFINE d(i) == s[(i + 1) \div 2]
<1>1. IsFiniteSet(S)
  BY FS_Subset, GroupsAssumption
<1>2. s \in Seq(S) /\ Len(s) \in Nat /\ DOMAIN s = 1..Len(s) /\ Range(s) = S
  BY <1>1, SeqsOf
<1>3. \A i \in 1..(2 * Len(s)) : (i + 1) \div 2 \in 1..Len(s)
  BY <1>2
<1>4. \A i \in 1..(2 * Len(s)) : d(i) \in S /\ d(i) \in Clients
  BY <1>2, <1>3
<1>5. \A i \in 1..(2 * Len(s)) :
        calls[i] = IF i % 2 = 1 THEN [CallOn("exit", d(i), n) EXCEPT !.exit = exit]
                   ELSE [CallOn("rules", d(i), n) EXCEPT !.rules = R]
  BY DEF SaveCalls
<1> HIDE DEF d
<1>6. \A i \in 1..(2 * Len(s)) :
        /\ calls[i] \in Call /\ calls[i].on = <<d(i), n>>
        /\ i % 2 = 1 => calls[i].op = "exit" /\ calls[i].exit = exit
        /\ i % 2 # 1 => calls[i].op = "rules" /\ calls[i].rules = R
  <2> SUFFICES ASSUME NEW i \in 1..(2 * Len(s))
               PROVE  /\ calls[i] \in Call /\ calls[i].on = <<d(i), n>>
                      /\ i % 2 = 1 => calls[i].op = "exit" /\ calls[i].exit = exit
                      /\ i % 2 # 1 => calls[i].op = "rules" /\ calls[i].rules = R
    OBVIOUS
  <2>1. CASE i % 2 = 1
    <3>1. calls[i] = [CallOn("exit", d(i), n) EXCEPT !.exit = exit]
      BY <1>5, <2>1
    <3> QED BY <1>4, <2>1, <3>1, CallShape DEF Kinds
  <2>2. CASE i % 2 # 1
    <3>1. calls[i] = [CallOn("rules", d(i), n) EXCEPT !.rules = R]
      BY <1>5, <2>2
    <3>2. d(i) \in Clients
      BY <1>4
    <3>3. PICK k : k = [CallOn("rules", d(i), n) EXCEPT !.rules = R]
      OBVIOUS
    <3>4. k \in Call /\ k.on = <<d(i), n>> /\ k.op = "rules" /\ k.rules = R
      BY <3>2, <3>3 DEF CallOn, Call, Pairs
    <3> QED BY <2>2, <3>1, <3>3, <3>4
  <2> QED BY <2>1, <2>2
<1>7. DOMAIN calls = 1..(2 * Len(s)) /\ calls = [i \in 1..(2 * Len(s)) |-> calls[i]]
  BY DEF SaveCalls
<1>8. calls \in [1..(2 * Len(s)) -> Call] /\ 2 * Len(s) \in Nat
  BY <1>2, <1>6, <1>7
<1>9. calls \in Seq(Call)
  BY <1>8
<1>10. ASSUME NEW k \in Range(calls)
       PROVE  /\ k.on \in S \X {n}
              /\ (k.op = "exit" /\ k.exit = exit) \/ (k.op = "rules" /\ k.rules = R)
  <2>1. PICK i \in 1..(2 * Len(s)) : k = calls[i]
    BY <1>7 DEF Range
  <2>2. k.on = <<d(i), n>> /\ d(i) \in S
    BY <1>4, <1>6, <2>1
  <2>3. (k.op = "exit" /\ k.exit = exit) \/ (k.op = "rules" /\ k.rules = R)
    BY <1>6, <2>1
  <2> QED BY <2>2, <2>3
<1>11. ASSUME NEW c \in S
       PROVE  /\ \E k \in Range(calls) : k.op = "exit" /\ k.on = <<c, n>>
              /\ \E k \in Range(calls) : k.op = "rules" /\ k.on = <<c, n>>
  <2>1. PICK j \in 1..Len(s) : s[j] = c
    BY <1>2 DEF Range
  <2>2. /\ 2 * j - 1 \in 1..(2 * Len(s)) /\ (2 * j - 1) % 2 = 1 /\ (2 * j - 1 + 1) \div 2 = j
        /\ 2 * j \in 1..(2 * Len(s)) /\ (2 * j) % 2 # 1 /\ (2 * j + 1) \div 2 = j
    BY <1>2
  <2>3. d(2 * j - 1) = c /\ d(2 * j) = c
    BY <2>1, <2>2 DEF d
  <2>4. calls[2 * j - 1] \in Range(calls) /\ calls[2 * j] \in Range(calls)
    BY <1>7, <2>2 DEF Range
  <2> QED BY <1>6, <2>2, <2>3, <2>4
<1> QED BY <1>9, <1>10, <1>11 DEF SavesOf

---------------------------------------------------------------------------
(* What a call does to the database.                                       *)

\* A device the panel lists.
Listable(c) == client[c] \in {"enabled", "disabled"}

\* A device exists exactly when ListClients returns it.
LEMMA ExistsListable == \A c \in Clients : Exists(c) <=> Listable(c)
BY GroupsAssumption DEF Exists, Listable, Granted

ExitsGranted == exits \subseteq Granted

\* A deletion of a grant is of nothing else.
LEMMA DeletePair ==
    ASSUME StoreTypeOK, NEW g \in Pairs, Delete(g)
    PROVE  /\ access' = [access EXCEPT ![g] = NoAccess] /\ exits' = exits \ {g}
           /\ client' = client /\ node' = node
<1>1. Doomed(g) = {g}
  BY GroupsAssumption DEF Doomed, Pairs
<1>2. g \notin Clients /\ g \notin Nodes
  BY GroupsAssumption
<1> QED BY <1>1, <1>2 DEF Delete, StoreTypeOK

\* Each kind of call changes its own pair, in its own way.
LEMMA CommitEffect ==
    ASSUME StoreTypeOK, ExitsGranted, NEW f, NEW call \in Call, Commits(f, call)
    PROVE  /\ StoreTypeOK' /\ ExitsGranted' /\ node' = node
           /\ \A c \in Clients : Listable(c) => Listable(c)'
           /\ \A h \in Pairs \ {call.on} : access'[h] = access[h] /\ (h \in exits' <=> h \in exits)
           /\ call.op \in {"create", "copy", "place"} => access' = access /\ exits' = exits
           /\ call.op = "grant" =>
                /\ access'[call.on] = IF access[call.on] = NoAccess THEN Unlimited ELSE access[call.on]
                /\ exits' = exits
           /\ call.op = "revoke" => access'[call.on] = NoAccess /\ call.on \notin exits'
           /\ call.op = "exit" => access' = access /\ (call.on \in exits' <=> call.exit)
           /\ call.op = "rules" => exits' = exits /\ (flow[f].alone => access'[call.on] = call.rules)
<1> DEFINE g == call.on
<1> USE DEF StoreTypeOK, ExitsGranted, Granted, Listable
<1>1. g \in Pairs /\ g[1] \in Clients /\ g[2] \in Nodes /\ call.exit \in BOOLEAN /\ call.rules \in SUBSET Rules
  BY DEF Call, Pairs
<1> HIDE DEF g
<1>2. Unlimited \in Allowed /\ NoAccess \in Allowed /\ Unlimited # NoAccess
  BY DEF Unlimited, NoAccess, Allowed
<1>3. CASE call.op = "create" /\ CreateClient(g[1])
  BY <1>1, <1>3 DEF CreateClient
<1>4. CASE call.op = "grant" /\ SetGrant(g)
  BY <1>1, <1>2, <1>4 DEF SetGrant, g
<1>5. CASE call.op = "revoke" /\ IF g \in Granted THEN Delete(g) ELSE UNCHANGED dbVars
  <2>1. CASE g \in Granted
    <3>1. /\ access' = [access EXCEPT ![g] = NoAccess] /\ exits' = exits \ {g}
          /\ client' = client /\ node' = node
      BY <1>1, <1>5, <2>1, DeletePair
    <3> QED BY <1>1, <1>2, <1>5, <3>1 DEF g
  <2>2. CASE g \notin Granted
    BY <1>1, <1>5, <2>2 DEF dbVars, g
  <2> QED BY <2>1, <2>2
<1>6. CASE call.op = "exit" /\ SetGrantExit(g, call.exit)
  BY <1>1, <1>6 DEF SetGrantExit, g
<1>7. CASE call.op = "rules" /\ SetGrantRules(g, call.rules) /\ (flow[f].alone => access'[g] = call.rules)
  <2>1. PICK kept \in SUBSET access[g] : access' = [access EXCEPT ![g] = call.rules \cup kept]
    BY <1>7 DEF SetGrantRules
  <2>2. g \in Granted /\ UNCHANGED <<client, node, exits>>
    BY <1>7 DEF SetGrantRules
  <2>3. call.rules \cup kept \in SUBSET Rules
    BY <1>1, <2>2 DEF Allowed
  <2>4. call.rules \cup kept \in Allowed /\ call.rules \cup kept # NoAccess
    BY <2>3, GroupsAssumption DEF Allowed, NoAccess
  <2> QED BY <1>1, <1>7, <2>1, <2>2, <2>4 DEF g
<1>8. CASE call.op \in {"copy", "place"} /\ UNCHANGED dbVars
  BY <1>8 DEF dbVars
<1> QED BY <1>3, <1>4, <1>5, <1>6, <1>7, <1>8 DEF Commits, g


---------------------------------------------------------------------------
(* Type correctness.                                                       *)

Lists == [Clients -> (SUBSET Nodes) \cup {NoDevice}]
Goal  == [on : Pairs, exit : BOOLEAN, rules : SUBSET Rules]

FlowState == [calls : Seq(Call), browser : Browsers \cup {Nil}, ends : {"idle", "well", "badly"},
              alone : BOOLEAN, goal : SUBSET Goal]

Shapes ==
    /\ StoreTypeOK /\ ExitsGranted
    /\ blob \in Layout /\ groups \in [Browsers -> Layout]
    /\ puts \in [Browsers -> SUBSET Layout]
    /\ view \in [Browsers -> Lists]
    /\ polls \in [Browsers -> SUBSET Lists]
    /\ flow \in [Flows -> FlowState]
    /\ settled \in BOOLEAN

\* What a page is shown has the shape of a list.
LEMMA ListedShape == Listed \in Lists
BY DEF Listed, Lists

\* A group is a set of devices, or there is none; the two do not look alike.
LEMMA GroupShape ==
    ASSUME NEW m \in Layout, NEW g \in GroupIds
    PROVE  /\ m[g] # NoGroup => m[g] \in SUBSET Clients
           /\ \A c \in Clients : c \in m[g] => m[g] # NoGroup
BY GroupsAssumption DEF Layout, Members, NoGroup

\* Nodes the page shows, for any devices.
LEMMA GrantsShape ==
    ASSUME Shapes, NEW b \in Browsers, NEW S \in SUBSET Clients
    PROVE  /\ GroupGrants(b, S) \in SUBSET Nodes
           /\ \A c \in Clients : view[b][c] # NoDevice => view[b][c] \in SUBSET Nodes
           /\ \A c \in S, n \in Nodes : n \in view[b][c] => n \in GroupGrants(b, S)
           /\ \A n \in GroupGrants(b, S) : \E c \in S : view[b][c] # NoDevice /\ n \in view[b][c]
<1>1. \A c \in Clients : view[b][c] \in (SUBSET Nodes) \cup {NoDevice}
  BY DEF Shapes, Lists
<1>2. \A c \in Shown(b, S) : c \in S /\ view[b][c] # NoDevice
  BY DEF Shown
<1>3. \A c \in S, n \in Nodes : n \in view[b][c] => c \in Shown(b, S)
  BY GroupsAssumption DEF Shown, NoDevice
<1>4. \A n : n \in GroupGrants(b, S) <=> \E c \in Shown(b, S) : n \in view[b][c]
  BY DEF GroupGrants
<1> QED BY <1>1, <1>2, <1>3, <1>4

\* The layout a page saves becomes its copy, and one more blob on its way.
LEMMA SavesShape ==
    ASSUME Shapes, NEW b \in Browsers, NEW m \in Layout, Saves(b, m)
    PROVE  /\ blob' \in Layout /\ groups' \in [Browsers -> Layout] /\ puts' \in [Browsers -> SUBSET Layout]
           /\ view' \in [Browsers -> Lists] /\ polls' \in [Browsers -> SUBSET Lists]
           /\ groups' = [groups EXCEPT ![b] = m]
           /\ puts' = [puts EXCEPT ![b] = @ \cup {m}] /\ blob' = blob /\ view' = view /\ polls' = polls
BY DEF Shapes, Saves

\* What is set out to be done: calls, and for a save what they are to bring about.
Errand(calls, goal) ==
    /\ calls \in Seq(Call) /\ goal \in SUBSET Goal
    /\ goal # {} =>
         /\ \A k \in Range(calls) : k.op \in {"exit", "rules"}
         /\ \A x \in goal :
              /\ \A k \in Range(calls) : k.on = x.on =>
                   (k.op = "exit" /\ k.exit = x.exit) \/ (k.op = "rules" /\ k.rules = x.rules)
              /\ \E k \in Range(calls) : k.on = x.on /\ k.op = "exit"
              /\ \E k \in Range(calls) : k.on = x.on /\ k.op = "rules"

\* Any calls will do when nothing in particular is to be brought about.
LEMMA PlainErrand ==
    ASSUME NEW calls \in Seq(Call)
    PROVE  Errand(calls, {})
BY DEF Errand

\* A flow that starts is one among the others, which have company from then on.
LEMMA StartsShape ==
    ASSUME Shapes, NEW f \in Flows, NEW b \in Browsers, NEW calls \in Seq(Call), NEW goal \in SUBSET Goal,
           Starts(f, b, calls, goal)
    PROVE  /\ flow' \in [Flows -> FlowState] /\ settled' \in BOOLEAN
           /\ StoreTypeOK' /\ ExitsGranted'
<1>1. flow' \in [Flows -> FlowState]
  <2>1. [calls |-> calls, browser |-> b, ends |-> "well",
         alone |-> \A y \in Flows : ~ Running(y), goal |-> goal] \in FlowState
    BY DEF FlowState
  <2>2. ASSUME NEW x \in Flows
        PROVE  [flow[x] EXCEPT !.alone = @ /\ ~ Running(x)] \in FlowState
    <3>1. flow[x] \in FlowState
      BY DEF Shapes
    <3> QED BY <3>1 DEF FlowState
  <2> QED BY <2>1, <2>2 DEF Starts
<1>2. settled' \in BOOLEAN
  BY DEF Starts, Shapes
<1>3. UNCHANGED dbVars
  BY DEF Starts
<1> QED BY <1>1, <1>2, <1>3 DEF Shapes, dbVars, StoreTypeOK, ExitsGranted, Granted

\* A flow that starts and saves no layout keeps the shapes.
LEMMA StartsKeeps ==
    ASSUME Shapes, NEW f \in Flows, NEW b \in Browsers, NEW calls, NEW goal, Errand(calls, goal),
           Starts(f, b, calls, goal), UNCHANGED pageVars
    PROVE  Shapes'
<1>1. calls \in Seq(Call) /\ goal \in SUBSET Goal
  BY DEF Errand
<1>2. flow' \in [Flows -> FlowState] /\ settled' \in BOOLEAN /\ StoreTypeOK' /\ ExitsGranted'
  BY <1>1, StartsShape
<1> QED BY <1>2 DEF Shapes, pageVars

\* The calls of a join are on the device that joins, each of a kind.
JoinsOf(b, S, c, shown, target, calls) ==
    /\ calls \in Seq(Call)
    /\ \A k \in Range(calls) :
         \E n \in Nodes :
           /\ k.on = <<c, n>>
           /\ \/ k.op = "grant" /\ n \in target \ shown
              \/ k.op = "revoke" /\ n \in shown \ target
              \/ /\ k.op = "copy" /\ n \in target
                 /\ k.of \in Shown(b, S) /\ n \in view[b][k.of]
    /\ \A n \in shown \ target : \E k \in Range(calls) : k.op = "revoke" /\ k.on = <<c, n>>
    /\ \A n \in target : \A m \in Shown(b, S) :
         n \in view[b][m] => \E k \in Range(calls) : k.op = "copy" /\ k.on = <<c, n>>

\* joinGroup's plan: syncPlan's grants and revocations, then the copies (AccessGraph.tsx,
\* groups.ts).
LEMMA JoinCalls ==
    ASSUME Shapes, NEW b \in Browsers, NEW c \in Clients, NEW S \in SUBSET Clients,
           NEW shown \in SUBSET Nodes, NEW target \in SUBSET Nodes,
           NEW add \in OneByOne("grant", {c} \X (target \ shown)),
           NEW remove \in OneByOne("revoke", {c} \X (shown \ target)),
           NEW copies \in Copies(b, S, c, target)
    PROVE  JoinsOf(b, S, c, shown, target, add \o remove \o copies)
<1> DEFINE some == {c} \X (target \ shown)
           others == {c} \X (shown \ target)
<1>1. some \in SUBSET Pairs /\ others \in SUBSET Pairs
  BY DEF Pairs
<1>a. add \in OneByOne("grant", some) /\ remove \in OneByOne("revoke", others)
  OBVIOUS
<1>b. /\ \A x \in some : \E n \in target \ shown : x = <<c, n>>
      /\ \A x \in others : \E n \in shown \ target : x = <<c, n>>
      /\ \A n \in shown \ target : <<c, n>> \in others
  OBVIOUS
<1> HIDE DEF some, others
<1>c. "grant" \in Kinds /\ "revoke" \in Kinds
  BY DEF Kinds
<1>2. /\ add \in Seq(Call)
      /\ \A k \in Range(add) : k.op = "grant" /\ k.on \in some
  BY <1>1, <1>a, <1>c, OneByOneCalls
<1>3. /\ remove \in Seq(Call)
      /\ \A k \in Range(remove) : k.op = "revoke" /\ k.on \in others
      /\ \A x \in others : \E k \in Range(remove) : k.op = "revoke" /\ k.on = x
  BY <1>1, <1>a, <1>c, OneByOneCalls
<1>4. /\ copies \in Seq(Call)
      /\ \A k \in Range(copies) :
           \E n \in target : \E m \in Shown(b, S) :
             n \in view[b][m] /\ k.op = "copy" /\ k.on = <<c, n>> /\ k.of = m
      /\ \A n \in target : \A m \in Shown(b, S) :
           n \in view[b][m] => \E k \in Range(copies) : k.op = "copy" /\ k.on = <<c, n>>
  BY CopyCalls DEF CopiesOf
<1> DEFINE calls == add \o remove \o copies
<1>5. calls \in Seq(Call) /\ Range(calls) = Range(add) \cup Range(remove) \cup Range(copies)
  <2>1. add \o remove \in Seq(Call) /\ Range(add \o remove) = Range(add) \cup Range(remove)
    BY <1>2, <1>3, RangeConcatenation
  <2>2. copies \in Seq(Call)
    BY <1>4
  <2> DEFINE changes == add \o remove
  <2>3. changes \in Seq(Call) /\ calls = changes \o copies
    BY <2>1
  <2> HIDE DEF changes, calls
  <2>4. changes \o copies \in Seq(Call) /\ Range(changes \o copies) = Range(changes) \cup Range(copies)
    BY <2>2, <2>3, ConcatProperties, RangeConcatenation
  <2> QED BY <2>1, <2>3, <2>4 DEF changes
<1> HIDE DEF calls
<1>6. ASSUME NEW k \in Range(calls)
      PROVE  \E n \in Nodes :
               /\ k.on = <<c, n>>
               /\ \/ k.op = "grant" /\ n \in target \ shown
                  \/ k.op = "revoke" /\ n \in shown \ target
                  \/ /\ k.op = "copy" /\ n \in target
                     /\ k.of \in Shown(b, S) /\ n \in view[b][k.of]
  <2>1. CASE k \in Range(add)
    BY <1>2, <1>b, <2>1
  <2>2. CASE k \in Range(remove)
    BY <1>3, <1>b, <2>2
  <2>3. CASE k \in Range(copies)
    BY <1>4, <2>3
  <2> QED BY <1>5, <2>1, <2>2, <2>3
<1>7. \A n \in shown \ target : \E k \in Range(calls) : k.op = "revoke" /\ k.on = <<c, n>>
  BY <1>3, <1>5, <1>b
<1>8. \A n \in target : \A m \in Shown(b, S) :
        n \in view[b][m] => \E k \in Range(calls) : k.op = "copy" /\ k.on = <<c, n>>
  BY <1>4, <1>5
<1> QED BY <1>5, <1>6, <1>7, <1>8 DEF calls, JoinsOf

\* A new device: it is created first, and placed last.
LEMMA AddCalls ==
    ASSUME NEW c \in Clients, NEW picked \in SUBSET Nodes,
           NEW grants \in OneByOne("grant", {c} \X picked),
           NEW place \in {<<>>, <<CallOn("place", c, HubNode)>>}
    PROVE  LET calls == <<CallOn("create", c, HubNode)>> \o grants \o place IN
           /\ calls \in Seq(Call)
           /\ \A k \in Range(calls) : k.on[1] = c /\ k.op \in {"create", "grant", "place"}
<1>1. {c} \X picked \in SUBSET Pairs
  BY DEF Pairs
<1>2. grants \in Seq(Call) /\ \A k \in Range(grants) : k.op = "grant" /\ k.on \in {c} \X picked
  BY <1>1, OneByOneCalls DEF Kinds
<1> DEFINE create == <<CallOn("create", c, HubNode)>>
<1>3. create \in Seq(Call) /\ \A k \in Range(create) : k = CallOn("create", c, HubNode)
  BY CallShape, GroupsAssumption DEF Kinds, Range
<1>4. place \in Seq(Call) /\ \A k \in Range(place) : k = CallOn("place", c, HubNode)
  <2>1. CallOn("place", c, HubNode) \in Call
    BY CallShape, GroupsAssumption DEF Kinds
  <2>2. CASE place = <<>>
    <3>1. place \in Seq(Call)
      BY <2>2
    <3>2. Range(place) = {}
      BY <2>2, <3>1, RangeOfEmpty
    <3> QED BY <3>1, <3>2
  <2>3. CASE place = <<CallOn("place", c, HubNode)>>
    BY <2>1, <2>3 DEF Range
  <2> QED BY <2>2, <2>3
<1> HIDE DEF create
<1>5. create \o grants \in Seq(Call) /\ Range(create \o grants) = Range(create) \cup Range(grants)
  BY <1>2, <1>3, RangeConcatenation
<1> DEFINE changes == create \o grants
           calls == changes \o place
<1> HIDE DEF changes
<1>6. calls \in Seq(Call) /\ Range(calls) = Range(create) \cup Range(grants) \cup Range(place)
  <2>1. changes \in Seq(Call) /\ Range(changes) = Range(create) \cup Range(grants)
    BY <1>5 DEF changes
  <2>2. changes \o place \in Seq(Call) /\ Range(changes \o place) = Range(changes) \cup Range(place)
    BY <1>4, <2>1, ConcatProperties, RangeConcatenation
  <2> QED BY <2>1, <2>2
<1> HIDE DEF calls
<1>7. ASSUME NEW k \in Range(calls) PROVE k.on[1] = c /\ k.op \in {"create", "grant", "place"}
  <2>1. CASE k \in Range(create)
    <3>1. k.op = "create" /\ k.on = <<c, HubNode>>
      BY <1>3, <2>1, CallShape, GroupsAssumption DEF Kinds
    <3> QED BY <3>1
  <2>2. CASE k \in Range(grants)
    BY <1>2, <2>2
  <2>3. CASE k \in Range(place)
    <3>1. k.op = "place" /\ k.on = <<c, HubNode>>
      BY <1>4, <2>3, CallShape, GroupsAssumption DEF Kinds
    <3> QED BY <3>1
  <2> QED BY <1>6, <2>1, <2>2, <2>3
<1> QED BY <1>6, <1>7 DEF calls, changes, create

\* A save is an errand: its goal, and calls that bring it about.
LEMMA SaveErrand ==
    ASSUME NEW S \in SUBSET Clients, NEW n \in Nodes, NEW exit \in BOOLEAN, NEW R \in SUBSET Rules,
           NEW s \in SetToSeqs(S)
    PROVE  Errand(SaveCalls(s, n, exit, R), {[on |-> <<c, n>>, exit |-> exit, rules |-> R] : c \in S})
<1> DEFINE calls == SaveCalls(s, n, exit, R)
           goal == {[on |-> <<c, n>>, exit |-> exit, rules |-> R] : c \in S}
<1> HIDE DEF calls, goal
<1>a. calls = SaveCalls(s, n, exit, R)
  BY DEF calls
<1>1. /\ calls \in Seq(Call)
      /\ \A k \in Range(calls) :
           /\ k.on \in S \X {n}
           /\ (k.op = "exit" /\ k.exit = exit) \/ (k.op = "rules" /\ k.rules = R)
      /\ \A c \in S : /\ \E k \in Range(calls) : k.op = "exit" /\ k.on = <<c, n>>
                      /\ \E k \in Range(calls) : k.op = "rules" /\ k.on = <<c, n>>
  <2>1. SavesOf(S, n, exit, R, calls)
    BY <1>a, SaveRulesCalls
  <2> QED BY <2>1 DEF SavesOf
<1>2. goal \in SUBSET Goal
  BY DEF Goal, Pairs, goal
<1>3. \A x \in goal : \E c \in S : x.on = <<c, n>> /\ x.exit = exit /\ x.rules = R
  BY DEF goal
<1>4. Errand(calls, goal)
  <2>1. \A k \in Range(calls) : k.op \in {"exit", "rules"}
    BY <1>1
  <2>2. ASSUME NEW x \in goal
        PROVE  /\ \A k \in Range(calls) : k.on = x.on =>
                    (k.op = "exit" /\ k.exit = x.exit) \/ (k.op = "rules" /\ k.rules = x.rules)
               /\ \E k \in Range(calls) : k.on = x.on /\ k.op = "exit"
               /\ \E k \in Range(calls) : k.on = x.on /\ k.op = "rules"
    BY <1>1, <1>3
  <2> QED BY <1>1, <1>2, <2>1, <2>2 DEF Errand
<1> QED BY <1>4 DEF calls, goal

\* What the editor is open for.
LEMMA EditedShape ==
    ASSUME Shapes, NEW b \in Browsers, NEW S \in Edited(b) \ {NoGroup, {}}
    PROVE  /\ S \in SUBSET Clients
           /\ \/ \E g \in GroupIds : S = groups[b][g]
              \/ \E c \in Clients : S = {c} /\ GroupOf(b, c) = {}
<1>1. groups[b] \in Layout
  BY DEF Shapes
<1>2. CASE \E g \in GroupIds : S = groups[b][g]
  BY <1>1, <1>2, GroupShape
<1>3. CASE \E c \in {x \in Clients : GroupOf(b, x) = {}} : S = {c}
  BY <1>3
<1> QED BY <1>2, <1>3 DEF Edited

FirstOf(f) == Head(flow[f].calls)
RestOf(f)  == Tail(flow[f].calls)

\* A flow that runs has a call at its head.
LEMMA FirstCall ==
    ASSUME Shapes, NEW f \in Flows, Running(f)
    PROVE  /\ flow[f] \in FlowState /\ flow[f].calls \in Seq(Call)
           /\ FirstOf(f) \in Call /\ RestOf(f) \in Seq(Call)
           /\ Range(flow[f].calls) = {FirstOf(f)} \cup Range(RestOf(f))
<1>1. flow[f] \in FlowState
  BY DEF Shapes
<1>2. flow[f].calls \in Seq(Call) /\ flow[f].calls # <<>>
  BY <1>1 DEF FlowState, Running
<1> QED BY <1>1, <1>2, RangeOfRest DEF FirstOf, RestOf

\* GrantExit and GrantRules: the exit and the rules of the representative, on the pair
\* the copy is for.
LEMMA CopiedCalls ==
    ASSUME Shapes, NEW call \in Call, <<call.of, call.on[2]>> \in Granted
    PROVE  /\ Copied(call) \in Seq(Call)
           /\ \E e, r \in Call :
                /\ Range(Copied(call)) = {e, r}
                /\ e.op = "exit" /\ e.on = call.on /\ (e.exit <=> <<call.of, call.on[2]>> \in exits)
                /\ r.op = "rules" /\ r.on = call.on /\ r.rules = access[<<call.of, call.on[2]>>]
<1> DEFINE rep == <<call.of, call.on[2]>>
           e == [call EXCEPT !.op = "exit", !.exit = rep \in exits]
           r == [call EXCEPT !.op = "rules", !.rules = access[rep]]
<1>1. rep \in Pairs /\ access[rep] \in SUBSET Rules
  BY DEF Granted, Shapes, StoreTypeOK, Allowed
<1> HIDE DEF rep
<1> DEFINE e0 == [call EXCEPT !.op = "exit"]
           r0 == [call EXCEPT !.op = "rules"]
<1>3. e = [e0 EXCEPT !.exit = rep \in exits] /\ r = [r0 EXCEPT !.rules = access[rep]]
  OBVIOUS
<1>4. /\ e0 \in Call /\ e0.op = "exit" /\ e0.on = call.on
      /\ r0 \in Call /\ r0.op = "rules" /\ r0.on = call.on
  BY DEF Call
<1>5. (rep \in exits) \in BOOLEAN
  OBVIOUS
<1> HIDE DEF e, r, e0, r0
<1>6. e \in Call /\ e.op = "exit" /\ e.on = call.on /\ (e.exit <=> rep \in exits)
  BY <1>3, <1>4, <1>5 DEF Call
<1>7. r \in Call /\ r.op = "rules" /\ r.on = call.on /\ r.rules = access[rep]
  BY <1>1, <1>3, <1>4 DEF Call
<1>8. Copied(call) = <<e, r>>
  BY DEF Copied, e, r, rep
<1>9. <<e, r>> \in Seq(Call) /\ Range(<<e, r>>) = {e, r}
  <2>1. <<e, r>> \in Seq(Call) /\ DOMAIN <<e, r>> = 1..2 /\ <<e, r>>[1] = e /\ <<e, r>>[2] = r
    BY <1>6, <1>7
  <2> QED BY <2>1 DEF Range
<1> QED BY <1>6, <1>7, <1>8, <1>9 DEF rep

\* A call that succeeds: the database, the flow and the blobs on their way after it.
LEMMA Succeeds ==
    ASSUME Shapes, NEW f \in Flows, CallSucceeds(f)
    PROVE  /\ Running(f) /\ Commits(f, FirstOf(f))
           /\ flow' \in [Flows -> FlowState]
           /\ \A x \in Flows \ {f} : flow'[x] = flow[x]
           /\ flow'[f].alone = flow[f].alone /\ flow'[f].goal = flow[f].goal
           /\ FirstOf(f).op # "copy" => flow'[f].calls = RestOf(f)
           /\ FirstOf(f).op = "copy" =>
                /\ <<FirstOf(f).of, FirstOf(f).on[2]>> \in Granted
                /\ flow'[f].calls = Copied(FirstOf(f)) \o RestOf(f)
           /\ puts' \in [Browsers -> SUBSET Layout]
           /\ \A b \in Browsers : puts'[b] \subseteq puts[b] \cup {NoGroups}
           /\ blob' = blob /\ groups' = groups /\ view' = view /\ polls' = polls /\ settled' = settled
<1> DEFINE call == FirstOf(f)
           rest == RestOf(f)
           b == flow[f].browser
           after == IF call.op = "copy" THEN Copied(call) \o rest ELSE rest
<1>1. /\ Running(f) /\ Commits(f, call)
      /\ call.op = "copy" => <<call.of, call.on[2]>> \in Granted
      /\ flow' = [flow EXCEPT ![f].calls = after]
      /\ puts' = [puts EXCEPT ![b] = IF call.op = "place" THEN @ \cup {NoGroups} ELSE @]
      /\ blob' = blob /\ groups' = groups /\ view' = view /\ polls' = polls /\ settled' = settled
  BY DEF CallSucceeds, FirstOf, RestOf
<1>2. flow[f] \in FlowState /\ call \in Call /\ rest \in Seq(Call)
  BY <1>1, FirstCall
<1>3. after \in Seq(Call)
  <2>1. CASE call.op = "copy"
    <3>1. Copied(call) \in Seq(Call)
      BY <1>1, <1>2, <2>1, CopiedCalls
    <3> QED BY <1>2, <2>1, <3>1, ConcatProperties
  <2> QED BY <1>2, <2>1
<1> HIDE DEF after
<1>4. flow' = [flow EXCEPT ![f] = [flow[f] EXCEPT !.calls = after]]
  BY <1>1
<1>5. PICK after2 : after2 = [flow[f] EXCEPT !.calls = after]
  OBVIOUS
<1>6. /\ after2 \in FlowState /\ after2.calls = after
      /\ after2.alone = flow[f].alone /\ after2.goal = flow[f].goal
  BY <1>2, <1>3, <1>5 DEF FlowState
<1>7. flow' = [flow EXCEPT ![f] = after2]
  BY <1>4, <1>5
<1>8. flow \in [Flows -> FlowState]
  BY DEF Shapes
<1>9. /\ flow' \in [Flows -> FlowState] /\ flow'[f] = after2
      /\ \A x \in Flows \ {f} : flow'[x] = flow[x]
  BY <1>6, <1>7, <1>8
<1>10. NoGroups \in Layout /\ puts \in [Browsers -> SUBSET Layout]
  BY DEF NoGroups, Layout, Members, Shapes
<1>11. puts' \in [Browsers -> SUBSET Layout] /\ \A x \in Browsers : puts'[x] \subseteq puts[x] \cup {NoGroups}
  BY <1>1, <1>10
<1> QED BY <1>1, <1>6, <1>9, <1>11 DEF after

\* A call that fails ends its flow.
LEMMA Fails ==
    ASSUME Shapes, NEW f \in Flows, CallFails(f)
    PROVE  /\ Running(f)
           /\ Commits(f, FirstOf(f)) \/ UNCHANGED dbVars
           /\ flow' \in [Flows -> FlowState]
           /\ \A x \in Flows \ {f} : flow'[x] = flow[x]
           /\ flow'[f].calls = <<>> /\ flow'[f].ends = "badly" /\ flow'[f].goal = flow[f].goal
           /\ settled' = FALSE /\ UNCHANGED pageVars
<1>1. /\ Running(f)
      /\ Commits(f, FirstOf(f)) \/ UNCHANGED dbVars
      /\ flow' = [flow EXCEPT ![f].calls = <<>>, ![f].ends = "badly"]
      /\ settled' = FALSE /\ UNCHANGED pageVars
  BY DEF CallFails, FirstOf
<1>2. flow \in [Flows -> FlowState] /\ flow[f] \in FlowState
  BY DEF Shapes
<1>3. PICK ended : ended = [flow[f] EXCEPT !.calls = <<>>]
  OBVIOUS
<1>a. <<>> \in Seq(Call)
  OBVIOUS
<1>b. ended \in FlowState /\ ended.calls = <<>> /\ ended.goal = flow[f].goal
  BY <1>2, <1>3, <1>a DEF FlowState
<1> DEFINE after == [ended EXCEPT !.ends = "badly"]
<1>4. after \in FlowState /\ after.calls = <<>> /\ after.ends = "badly" /\ after.goal = flow[f].goal
  BY <1>b DEF FlowState
<1>5. flow' = [flow EXCEPT ![f] = after]
  BY <1>1, <1>2, <1>3
<1> HIDE DEF after
<1> QED BY <1>1, <1>2, <1>4, <1>5

---------------------------------------------------------------------------
(* A step leaves the database and the flows alone, sets a flow on its way, *)
(* or is the end of a call.                                                *)

Quiet == UNCHANGED <<dbVars, flow>>
Departs(f) == \E b \in Browsers : \E calls, goal : Starts(f, b, calls, goal) /\ Errand(calls, goal)
FlowStep == Quiet \/ \E f \in Flows : Departs(f) \/ CallSucceeds(f) \/ CallFails(f)

\* A step of the page alone keeps the shapes if its own parts do.
LEMMA QuietKeeps ==
    ASSUME Shapes, Quiet, blob' \in Layout, groups' \in [Browsers -> Layout],
           puts' \in [Browsers -> SUBSET Layout], view' \in [Browsers -> Lists],
           polls' \in [Browsers -> SUBSET Lists], settled' \in BOOLEAN
    PROVE  Shapes' /\ FlowStep
BY DEF Shapes, FlowStep, Quiet, dbVars, StoreTypeOK, ExitsGranted, Granted

\* The page's own actions on what it shows and on the blobs on their way.
LEMMA PageKeeps ==
    ASSUME Shapes, NEW b \in Browsers,
           \/ Poll(b) \/ OpenMap(b) \/ OpenMapFails(b)
           \/ \E list \in polls[b] : PollAnswered(b, list)
           \/ \E m \in puts[b] : LayoutStored(b, m) \/ LayoutLost(b, m)
    PROVE  Shapes' /\ FlowStep
<1>1. /\ blob \in Layout /\ groups \in [Browsers -> Layout] /\ NoGroups \in Layout
      /\ puts \in [Browsers -> SUBSET Layout] /\ view \in [Browsers -> Lists]
      /\ polls \in [Browsers -> SUBSET Lists] /\ settled \in BOOLEAN
  BY DEF Shapes, NoGroups, Layout, Members
<1>2. CASE Poll(b)
  <2>1. polls' \in [Browsers -> SUBSET Lists]
    BY <1>1, <1>2, ListedShape DEF Poll
  <2> QED BY <1>1, <1>2, <2>1, QuietKeeps DEF Poll, Quiet
<1>3. ASSUME NEW list \in polls[b], PollAnswered(b, list) PROVE Shapes' /\ FlowStep
  <2>1. polls' \in [Browsers -> SUBSET Lists] /\ view' \in [Browsers -> Lists]
    BY <1>1, <1>3 DEF PollAnswered
  <2> QED BY <1>1, <1>3, <2>1, QuietKeeps DEF PollAnswered, Quiet
<1>4. CASE OpenMap(b) \/ OpenMapFails(b)
  <2>1. groups' \in [Browsers -> Layout]
    BY <1>1, <1>4 DEF OpenMap, OpenMapFails
  <2> QED BY <1>1, <1>4, <2>1, QuietKeeps DEF OpenMap, OpenMapFails, Quiet
<1>5. ASSUME NEW m \in puts[b], LayoutStored(b, m) \/ LayoutLost(b, m) PROVE Shapes' /\ FlowStep
  <2>1. blob' \in Layout /\ puts' \in [Browsers -> SUBSET Layout]
    BY <1>1, <1>5 DEF LayoutStored, LayoutLost
  <2> QED BY <1>1, <1>5, <2>1, QuietKeeps DEF LayoutStored, LayoutLost, Quiet
<1> QED BY <1>2, <1>3, <1>4, <1>5

\* What it saves without a flow: its copy, as it is or with one group changed.
Redraws(b) == SavePositions(b) \/ \E g \in GroupIds : CreateGroup(b, g) \/ DissolveGroup(b, g)
                                                     \/ \E c \in Clients : TakeOut(b, g, c)

\* Every group of the layout m is empty, or what is left of a group of the page's copy.
Redrawn(b, m) ==
    /\ Saves(b, m) /\ UNCHANGED <<dbVars, flow>> /\ settled' = (settled /\ UpToDate(b))
    /\ \A g \in GroupIds :
         m[g] # NoGroup => m[g] = {} \/ (groups[b][g] # NoGroup /\ m[g] \subseteq groups[b][g])

\* persist and its callers send such a layout (AccessGraph.tsx).
LEMMA RedrawnLayout ==
    ASSUME Shapes, NEW b \in Browsers, Redraws(b)
    PROVE  \E m \in Layout : Redrawn(b, m)
<1>1. groups[b] \in Layout
  BY DEF Shapes
<1>2. CASE SavePositions(b)
  BY <1>1, <1>2 DEF SavePositions, Redrawn
<1>3. ASSUME NEW g \in GroupIds, CreateGroup(b, g) PROVE \E m \in Layout : Redrawn(b, m)
  <2> DEFINE m == [groups[b] EXCEPT ![g] = {}]
  <2>1. m \in Layout /\ \A h \in GroupIds : m[h] = IF h = g THEN {} ELSE groups[b][h]
    BY <1>1 DEF Layout, Members
  <2>2. Saves(b, m) /\ UNCHANGED <<dbVars, flow>> /\ settled' = (settled /\ UpToDate(b))
    BY <1>3 DEF CreateGroup
  <2> HIDE DEF m
  <2> QED BY <2>1, <2>2 DEF Redrawn
<1>4. ASSUME NEW g \in GroupIds, DissolveGroup(b, g) PROVE \E m \in Layout : Redrawn(b, m)
  <2> DEFINE m == [groups[b] EXCEPT ![g] = NoGroup]
  <2>1. m \in Layout /\ \A h \in GroupIds : m[h] = IF h = g THEN NoGroup ELSE groups[b][h]
    BY <1>1 DEF Layout, Members
  <2>2. Saves(b, m) /\ UNCHANGED <<dbVars, flow>> /\ settled' = (settled /\ UpToDate(b))
    BY <1>4 DEF DissolveGroup
  <2> HIDE DEF m
  <2> QED BY <2>1, <2>2 DEF Redrawn
<1>5. ASSUME NEW g \in GroupIds, NEW c \in Clients, TakeOut(b, g, c) PROVE \E m \in Layout : Redrawn(b, m)
  <2> DEFINE m == [groups[b] EXCEPT ![g] = @ \ {c}]
  <2>1. groups[b][g] \in SUBSET Clients /\ groups[b][g] # NoGroup
    BY <1>1, <1>5, GroupShape DEF TakeOut
  <2>2. m \in Layout /\ \A h \in GroupIds : m[h] = IF h = g THEN groups[b][h] \ {c} ELSE groups[b][h]
    BY <1>1, <2>1 DEF Layout, Members
  <2>3. Saves(b, m) /\ UNCHANGED <<dbVars, flow>> /\ settled' = (settled /\ UpToDate(b))
    BY <1>5 DEF TakeOut
  <2> HIDE DEF m
  <2> QED BY <2>1, <2>2, <2>3 DEF Redrawn
<1> QED BY <1>2, <1>3, <1>4, <1>5 DEF Redraws

\* Saving a layout without a flow keeps the shapes.
LEMMA RedrawKeeps ==
    ASSUME Shapes, NEW b \in Browsers, Redraws(b)
    PROVE  Shapes' /\ FlowStep
<1>1. PICK m \in Layout : Saves(b, m) /\ UNCHANGED <<dbVars, flow>> /\ settled' = (settled /\ UpToDate(b))
  BY RedrawnLayout DEF Redrawn
<1>2. settled' \in BOOLEAN
  BY <1>1 DEF Shapes
<1> QED BY <1>1, <1>2, SavesShape, QuietKeeps DEF Quiet

\* The actions that set a flow on its way.
LEMMA DepartureKeeps ==
    ASSUME Shapes, NEW f \in Flows, NEW b \in Browsers, NEW calls, NEW goal, Errand(calls, goal),
           Starts(f, b, calls, goal), UNCHANGED pageVars
    PROVE  Shapes' /\ FlowStep
<1>1. Departs(f)
  BY DEF Departs
<1> QED BY <1>1, StartsKeeps DEF FlowStep

\* joinGroup keeps the shapes and sets a flow on its way (AccessGraph.tsx).
LEMMA JoinKeeps ==
    ASSUME Shapes, NEW f \in Flows, NEW b \in Browsers, NEW g \in GroupIds, NEW c \in Clients,
           JoinGroup(b, f, g, c)
    PROVE  Shapes' /\ FlowStep
<1> DEFINE S      == groups[b][g]
           shown  == view[b][c]
           target == IF S = {} THEN shown ELSE GroupGrants(b, S)
<1>1. /\ S # NoGroup /\ shown # NoDevice
      /\ Saves(b, [groups[b] EXCEPT ![g] = S \cup {c}])
      /\ \E add \in OneByOne("grant", {c} \X (target \ shown)) :
         \E remove \in OneByOne("revoke", {c} \X (shown \ target)) :
         \E copies \in Copies(b, S, c, target) : Starts(f, b, add \o remove \o copies, {})
  BY DEF JoinGroup
<1>2. groups[b] \in Layout /\ S \in SUBSET Clients
  BY <1>1, GroupShape DEF Shapes
<1>3. [groups[b] EXCEPT ![g] = S \cup {c}] \in Layout
  BY <1>2 DEF Layout, Members
<1>4. shown \in SUBSET Nodes /\ target \in SUBSET Nodes
  BY <1>1, <1>2, GrantsShape
<1>5. PICK add \in OneByOne("grant", {c} \X (target \ shown)),
           remove \in OneByOne("revoke", {c} \X (shown \ target)), copies \in Copies(b, S, c, target) :
        Starts(f, b, add \o remove \o copies, {})
  BY <1>1
<1>6. add \o remove \o copies \in Seq(Call)
  <2> HIDE DEF S, shown, target
  <2>1. JoinsOf(b, S, c, shown, target, add \o remove \o copies)
    BY <1>2, <1>4, JoinCalls
  <2> QED BY <2>1 DEF JoinsOf
<1>7. Errand(add \o remove \o copies, {})
  BY <1>6, PlainErrand
<1>8. Departs(f)
  BY <1>5, <1>7 DEF Departs
<1>9. flow' \in [Flows -> FlowState] /\ settled' \in BOOLEAN /\ StoreTypeOK' /\ ExitsGranted'
  <2> DEFINE calls == add \o remove \o copies
  <2>1. calls \in Seq(Call) /\ {} \in SUBSET Goal /\ Starts(f, b, calls, {})
    BY <1>5, <1>6
  <2> HIDE DEF calls
  <2> QED BY <2>1, StartsShape
<1>10. /\ blob' \in Layout /\ groups' \in [Browsers -> Layout] /\ puts' \in [Browsers -> SUBSET Layout]
       /\ view' \in [Browsers -> Lists] /\ polls' \in [Browsers -> SUBSET Lists]
  BY <1>1, <1>3, SavesShape
<1> QED BY <1>8, <1>9, <1>10 DEF Shapes, FlowStep

\* So do linking a group to a node and removing a line of its own.
LEMMA GroupFlowKeeps ==
    ASSUME Shapes, NEW f \in Flows, NEW b \in Browsers, NEW g \in GroupIds, NEW n \in Nodes,
           GrantGroup(b, f, g, n) \/ RevokeGroup(b, f, g, n)
    PROVE  Shapes' /\ FlowStep
<1>1. PICK op \in {"grant", "revoke"} : \E calls \in OneByOne(op, groups[b][g] \X {n}) : Starts(f, b, calls, {})
  BY DEF GrantGroup, RevokeGroup
<1>2. groups[b][g] \X {n} \in SUBSET Pairs /\ UNCHANGED pageVars
  <2>1. groups[b][g] # NoGroup /\ UNCHANGED pageVars
    BY DEF GrantGroup, RevokeGroup
  <2>2. groups[b][g] \in SUBSET Clients
    BY <2>1, GroupShape DEF Shapes
  <2> QED BY <2>1, <2>2 DEF Pairs
<1>3. PICK calls \in OneByOne(op, groups[b][g] \X {n}) : Starts(f, b, calls, {})
  BY <1>1
<1>4. Errand(calls, {})
  BY <1>2, OneByOneCalls, PlainErrand DEF Kinds
<1> QED BY <1>2, <1>3, <1>4, DepartureKeeps

\* So does a change to a device in no group.
LEMMA DeviceFlowKeeps ==
    ASSUME Shapes, NEW f \in Flows, NEW b \in Browsers, NEW c \in Clients, NEW n \in Nodes,
           GrantDevice(b, f, c, n) \/ RevokeDevice(b, f, c, n)
    PROVE  Shapes' /\ FlowStep
<1>1. PICK op \in {"grant", "revoke"} : Starts(f, b, <<CallOn(op, c, n)>>, {})
  BY DEF GrantDevice, RevokeDevice
<1>2. CallOn(op, c, n) \in Call
  BY CallShape DEF Kinds
<1>3. <<CallOn(op, c, n)>> \in Seq(Call)
  BY <1>2
<1>4. UNCHANGED pageVars
  BY DEF GrantDevice, RevokeDevice
<1> QED BY <1>1, <1>3, <1>4, PlainErrand, DepartureKeeps

\* So does AddDeviceWizard.
LEMMA AddDeviceKeeps ==
    ASSUME Shapes, NEW f \in Flows, NEW b \in Browsers, NEW c \in Clients, NEW picked \in SUBSET Nodes,
           AddDevice(b, f, c, picked)
    PROVE  Shapes' /\ FlowStep
<1>1. PICK grants \in OneByOne("grant", {c} \X picked), place \in {<<>>, <<CallOn("place", c, HubNode)>>} :
        Starts(f, b, <<CallOn("create", c, HubNode)>> \o grants \o place, {})
  BY DEF AddDevice
<1>2. <<CallOn("create", c, HubNode)>> \o grants \o place \in Seq(Call)
  BY AddCalls
<1>3. UNCHANGED pageVars
  BY DEF AddDevice
<1> QED BY <1>1, <1>2, <1>3, PlainErrand, DepartureKeeps

\* So does RulesModal's save.
LEMMA SaveRulesKeeps ==
    ASSUME Shapes, NEW f \in Flows, NEW b \in Browsers, NEW S \in Edited(b), NEW n \in Nodes,
           NEW exit \in BOOLEAN, NEW R \in SUBSET Rules, SaveRules(b, f, S, n, exit, R)
    PROVE  Shapes' /\ FlowStep
<1> DEFINE toSave == IF exit THEN R \ {CatchAll} ELSE R
<1>1. S \in Edited(b) \ {NoGroup, {}} /\ UNCHANGED pageVars
  BY DEF SaveRules
<1>2. PICK s \in SetToSeqs(S) :
        Starts(f, b, SaveCalls(s, n, exit, toSave),
               {[on |-> <<c, n>>, exit |-> exit, rules |-> toSave] : c \in S})
  BY DEF SaveRules
<1>3. S \in SUBSET Clients /\ toSave \in SUBSET Rules
  BY <1>1, EditedShape
<1> HIDE DEF toSave
<1>4. Errand(SaveCalls(s, n, exit, toSave), {[on |-> <<c, n>>, exit |-> exit, rules |-> toSave] : c \in S})
  BY <1>3, SaveErrand
<1> QED BY <1>1, <1>2, <1>4, DepartureKeeps

\* The ends of a call.
LEMMA CallKeeps ==
    ASSUME Shapes, NEW f \in Flows, CallSucceeds(f) \/ CallFails(f)
    PROVE  Shapes' /\ FlowStep
<1>1. CASE CallSucceeds(f)
  <2>1. StoreTypeOK' /\ ExitsGranted'
    BY <1>1, Succeeds, FirstCall, CommitEffect DEF Shapes
  <2> QED BY <1>1, <2>1, Succeeds DEF Shapes, FlowStep
<1>2. CASE CallFails(f)
  <2>1. StoreTypeOK' /\ ExitsGranted'
    <3>1. CASE Commits(f, FirstOf(f))
      BY <1>2, <3>1, Fails, FirstCall, CommitEffect DEF Shapes
    <3>2. CASE UNCHANGED dbVars
      BY <3>2 DEF Shapes, dbVars, StoreTypeOK, ExitsGranted, Granted
    <3> QED BY <1>2, <3>1, <3>2, Fails
  <2> QED BY <1>2, <2>1, Fails DEF Shapes, FlowStep, pageVars
<1> QED BY <1>1, <1>2

\* Each action keeps the shapes, and is a step of a flow or of none.
LEMMA StepKeeps == Shapes /\ Next => Shapes' /\ FlowStep
<1> SUFFICES ASSUME Shapes, Next PROVE Shapes' /\ FlowStep
  OBVIOUS
<1>1. \A n \in Present : n \in Nodes
  BY DEF Present
<1>3. CASE OnTheWay
  <2>1. CASE \E b \in Browsers : \/ \E list \in polls[b] : PollAnswered(b, list)
                                 \/ \E m \in puts[b] : LayoutStored(b, m)
    BY <2>1, PageKeeps
  <2>2. CASE \E f \in Flows : CallSucceeds(f)
    BY <2>2, CallKeeps
  <2> QED BY <1>3, <2>1, <2>2 DEF OnTheWay
<1>4. CASE Failure
  <2>1. CASE \E b \in Browsers : OpenMapFails(b) \/ \E m \in puts[b] : LayoutLost(b, m)
    BY <2>1, PageKeeps
  <2>2. CASE \E f \in Flows : CallFails(f)
    BY <2>2, CallKeeps
  <2> QED BY <1>4, <2>1, <2>2 DEF Failure
<1>5. ASSUME NEW b \in Browsers, Poll(b) PROVE Shapes' /\ FlowStep
  BY <1>5, PageKeeps
<1>6. ASSUME NEW b \in Browsers, Operator(b) PROVE Shapes' /\ FlowStep
  <2>1. CASE OpenMap(b)
    BY <2>1, PageKeeps
  <2>2. CASE Redraws(b)
    BY <2>2, RedrawKeeps
  <2>3. CASE \E f \in Flows, g \in GroupIds, c \in Clients : JoinGroup(b, f, g, c)
    BY <2>3, JoinKeeps
  <2>4. CASE \E f \in Flows, g \in GroupIds, n \in Present : GrantGroup(b, f, g, n) \/ RevokeGroup(b, f, g, n)
    BY <1>1, <2>4, GroupFlowKeeps
  <2>5. CASE \E f \in Flows, c \in Clients, n \in Present : GrantDevice(b, f, c, n) \/ RevokeDevice(b, f, c, n)
    BY <1>1, <2>5, DeviceFlowKeeps
  <2>6. CASE \E f \in Flows, c \in Clients, picked \in SUBSET Present : AddDevice(b, f, c, picked)
    BY <1>1, <2>6, AddDeviceKeeps
  <2>7. CASE \E f \in Flows, S \in Edited(b), n \in Present, exit \in BOOLEAN, R \in SUBSET Rules :
               SaveRules(b, f, S, n, exit, R)
    BY <1>1, <2>7, SaveRulesKeeps
  <2> QED BY <1>6, <2>1, <2>2, <2>3, <2>4, <2>5, <2>6, <2>7 DEF Operator, Redraws
<1> QED BY <1>3, <1>4, <1>5, <1>6 DEF Next

\* The shapes hold before the first page is opened.
LEMMA InitialShapes == Init => Shapes
<1> SUFFICES ASSUME Init PROVE Shapes
  OBVIOUS
<1>1. StoreTypeOK
  BY GroupsAssumption DEF Init, StoreTypeOK, Allowed
<1>2. ExitsGranted
  BY DEF Init, ExitsGranted
<1>3. NoGroups \in Layout
  BY DEF NoGroups, Layout, Members
<1>4. NoFlow \in FlowState
  <2>1. <<>> \in Seq(Call)
    OBVIOUS
  <2> QED BY <2>1 DEF NoFlow, FlowState
<1>5. blob \in Layout /\ groups \in [Browsers -> Layout] /\ puts \in [Browsers -> SUBSET Layout]
  BY <1>3 DEF Init
<1>6. view \in [Browsers -> Lists] /\ polls \in [Browsers -> SUBSET Lists]
  BY ListedShape DEF Init
<1>7. flow \in [Flows -> FlowState] /\ settled \in BOOLEAN
  BY <1>4 DEF Init
<1> QED BY <1>1, <1>2, <1>5, <1>6, <1>7 DEF Shapes

\* Nothing happens to the shapes when nothing happens.
LEMMA StutterKeeps == Shapes /\ UNCHANGED vars => Shapes'
BY DEF Shapes, vars, dbVars, pageVars, StoreTypeOK, ExitsGranted, Granted

\* The layouts, the lists and the flows keep their shapes, and no grant of internet is
\* of a node that is not granted (AccessGraph.tsx and the calls it makes).
THEOREM GroupsTypeCorrect == Spec => []TypeOK
<1>1. Init => Shapes
  BY InitialShapes
<1>2. Shapes /\ [Next]_vars => Shapes'
  BY StepKeeps, StutterKeeps
<1>3. Shapes => TypeOK
  BY DEF Shapes, TypeOK, FlowState, Lists
<1> QED BY <1>1, <1>2, <1>3, PTL DEF Spec

---------------------------------------------------------------------------
(* A save that runs alone.                                                 *)

\* A flow is alone only if no other one runs.
NoCompany ==
    \A f \in Flows : Running(f) /\ flow[f].alone => \A x \in Flows \ {f} : ~ Running(x)

\* What is left to do brings about the goal, and nothing of it is undone.
GoalAhead ==
    \A f \in Flows : Running(f) /\ flow[f].alone /\ flow[f].goal # {} =>
      /\ \A k \in Range(flow[f].calls) : k.op \in {"exit", "rules"}
      /\ \A x \in flow[f].goal :
           /\ \A k \in Range(flow[f].calls) : k.on = x.on =>
                (k.op = "exit" /\ k.exit = x.exit) \/ (k.op = "rules" /\ k.rules = x.rules)
           /\ (x.on \in exits <=> x.exit) \/ \E k \in Range(flow[f].calls) : k.on = x.on /\ k.op = "exit"
           /\ access[x.on] = x.rules \/ \E k \in Range(flow[f].calls) : k.on = x.on /\ k.op = "rules"

SaveInv == Shapes /\ NoCompany /\ GoalAhead

\* Who is alone once a flow starts.
LEMMA StartsAlone ==
    ASSUME Shapes, NEW f \in Flows, NEW b \in Browsers, NEW calls, NEW goal, Starts(f, b, calls, goal)
    PROVE  /\ ~ Running(f) /\ UNCHANGED dbVars
           /\ flow'[f].calls = calls /\ flow'[f].goal = goal
           /\ flow'[f].alone <=> \A y \in Flows : ~ Running(y)
           /\ \A x \in Flows \ {f} :
                /\ flow'[x].calls = flow[x].calls /\ flow'[x].goal = flow[x].goal
                /\ flow'[x].alone <=> flow[x].alone /\ ~ Running(x)
           /\ settled' <=> settled /\ UpToDate(b)
<1>1. /\ ~ Running(f) /\ UNCHANGED dbVars
      /\ settled' = (settled /\ UpToDate(b))
      /\ flow' = [x \in Flows |->
                    IF x = f THEN [calls |-> calls, browser |-> b, ends |-> "well",
                                   alone |-> \A y \in Flows : ~ Running(y), goal |-> goal]
                    ELSE [flow[x] EXCEPT !.alone = @ /\ ~ Running(x)]]
  BY DEF Starts
<1>2. flow'[f] = [calls |-> calls, browser |-> b, ends |-> "well",
                  alone |-> \A y \in Flows : ~ Running(y), goal |-> goal]
  BY <1>1
<1>3. ASSUME NEW x \in Flows \ {f}
      PROVE  /\ flow'[x].calls = flow[x].calls /\ flow'[x].goal = flow[x].goal
             /\ flow'[x].alone <=> flow[x].alone /\ ~ Running(x)
  <2>1. flow[x] \in FlowState
    BY DEF Shapes
  <2>2. flow'[x] = [flow[x] EXCEPT !.alone = @ /\ ~ Running(x)]
    BY <1>1
  <2> QED BY <2>1, <2>2 DEF FlowState
<1> QED BY <1>1, <1>2, <1>3

\* A flow that has had company is not alone any more, and none comes back.
LEMMA NoCompanyKept ==
    ASSUME Shapes, NoCompany, FlowStep
    PROVE  NoCompany'
<1>1. CASE Quiet
  BY <1>1 DEF Quiet, NoCompany, Running
<1>2. ASSUME NEW f \in Flows, Departs(f) PROVE NoCompany'
  <2>1. PICK b \in Browsers : \E calls, goal : Starts(f, b, calls, goal)
    BY <1>2 DEF Departs
  <2>2. PICK calls, goal : Starts(f, b, calls, goal)
    BY <2>1
  <2>3. /\ flow'[f].alone <=> \A y \in Flows : ~ Running(y)
        /\ \A x \in Flows \ {f} : /\ flow'[x].calls = flow[x].calls
                                  /\ flow'[x].alone <=> flow[x].alone /\ ~ Running(x)
    BY <2>2, StartsAlone
  <2> QED BY <2>3 DEF NoCompany, Running
<1>3. ASSUME NEW f \in Flows, CallSucceeds(f) PROVE NoCompany'
  <2>1. Running(f) /\ flow'[f].alone = flow[f].alone /\ \A x \in Flows \ {f} : flow'[x] = flow[x]
    BY <1>3, Succeeds
  <2> QED BY <2>1 DEF NoCompany, Running
<1>4. ASSUME NEW f \in Flows, CallFails(f) PROVE NoCompany'
  <2>1. flow'[f].calls = <<>> /\ \A x \in Flows \ {f} : flow'[x] = flow[x]
    BY <1>4, Fails
  <2> QED BY <2>1 DEF NoCompany, Running
<1> QED BY <1>1, <1>2, <1>3, <1>4 DEF FlowStep

\* Each call of a save brings its part of the goal, and no call of another flow
\* interferes while it is alone (RulesModal.tsx).
LEMMA GoalAheadKept ==
    ASSUME SaveInv, FlowStep
    PROVE  GoalAhead'
<1> USE DEF SaveInv
<1>1. CASE Quiet
  BY <1>1 DEF Quiet, dbVars, GoalAhead, Running
<1>2. ASSUME NEW f \in Flows, Departs(f) PROVE GoalAhead'
  <2>1. PICK b \in Browsers : \E calls, goal : Starts(f, b, calls, goal) /\ Errand(calls, goal)
    BY <1>2 DEF Departs
  <2>2. PICK calls, goal : Starts(f, b, calls, goal) /\ Errand(calls, goal)
    BY <2>1
  <2>3. /\ flow'[f].calls = calls /\ flow'[f].goal = goal
        /\ \A x \in Flows \ {f} : /\ flow'[x].calls = flow[x].calls
                                  /\ flow'[x].alone <=> flow[x].alone /\ ~ Running(x)
    BY <2>2, StartsAlone
  <2>4. \A x \in Flows \ {f} : ~ (Running(x)' /\ flow'[x].alone)
    BY <2>3 DEF Running
  <2>5. goal # {} =>
          /\ \A k \in Range(calls) : k.op \in {"exit", "rules"}
          /\ \A x \in goal :
               /\ \A k \in Range(calls) : k.on = x.on =>
                    (k.op = "exit" /\ k.exit = x.exit) \/ (k.op = "rules" /\ k.rules = x.rules)
               /\ \E k \in Range(calls) : k.on = x.on /\ k.op = "exit"
               /\ \E k \in Range(calls) : k.on = x.on /\ k.op = "rules"
    BY <2>2 DEF Errand
  <2> QED BY <2>3, <2>4, <2>5 DEF GoalAhead
<1>3. ASSUME NEW f \in Flows, CallSucceeds(f) PROVE GoalAhead'
  <2> DEFINE call == FirstOf(f)
             rest == RestOf(f)
  <2>1. /\ Running(f) /\ Commits(f, call)
        /\ \A x \in Flows \ {f} : flow'[x] = flow[x]
        /\ flow'[f].alone = flow[f].alone /\ flow'[f].goal = flow[f].goal
        /\ call.op # "copy" => flow'[f].calls = rest
    BY <1>3, Succeeds
  <2>2. call \in Call /\ Range(flow[f].calls) = {call} \cup Range(rest) /\ flow[f] \in FlowState
    BY <2>1, FirstCall
  <2>3. ASSUME NEW x \in Flows, Running(x)', flow'[x].alone PROVE x = f
    <3>1. CASE x # f
      <4>1. flow'[x] = flow[x]
        BY <2>1, <3>1
      <4>2. Running(x) /\ flow[x].alone
        BY <2>3, <4>1 DEF Running
      <4> QED BY <2>1, <3>1, <4>2 DEF NoCompany
    <3> QED BY <3>1
  <2>4. CASE flow[f].alone /\ flow[f].goal # {}
    <3>1. /\ \A k \in Range(flow[f].calls) : k.op \in {"exit", "rules"}
          /\ \A x \in flow[f].goal :
               /\ \A k \in Range(flow[f].calls) : k.on = x.on =>
                    (k.op = "exit" /\ k.exit = x.exit) \/ (k.op = "rules" /\ k.rules = x.rules)
               /\ (x.on \in exits <=> x.exit) \/ \E k \in Range(flow[f].calls) : k.on = x.on /\ k.op = "exit"
               /\ access[x.on] = x.rules \/ \E k \in Range(flow[f].calls) : k.on = x.on /\ k.op = "rules"
      BY <2>1, <2>4 DEF GoalAhead
    <3>2. call.op \in {"exit", "rules"} /\ flow'[f].calls = rest
      BY <2>1, <2>2, <3>1
    <3>3. \A h \in Pairs \ {call.on} : access'[h] = access[h] /\ (h \in exits' <=> h \in exits)
      BY <2>1, <2>2, CommitEffect DEF Shapes
    <3>4. /\ call.op = "exit" => access' = access /\ (call.on \in exits' <=> call.exit)
          /\ call.op = "rules" => exits' = exits /\ access'[call.on] = call.rules
      BY <2>1, <2>2, <2>4, CommitEffect DEF Shapes
    <3>5. ASSUME NEW x \in flow[f].goal
          PROVE  /\ \A k \in Range(rest) : k.on = x.on =>
                      (k.op = "exit" /\ k.exit = x.exit) \/ (k.op = "rules" /\ k.rules = x.rules)
                 /\ (x.on \in exits' <=> x.exit) \/ \E k \in Range(rest) : k.on = x.on /\ k.op = "exit"
                 /\ access'[x.on] = x.rules \/ \E k \in Range(rest) : k.on = x.on /\ k.op = "rules"
      <4>1. x.on \in Pairs
        BY <2>2 DEF FlowState, Goal
      <4>2. CASE x.on # call.on
        BY <2>2, <3>1, <3>3, <4>1, <4>2
      <4>3. CASE x.on = call.on /\ call.op = "exit"
        <5>1. call.exit = x.exit
          BY <2>2, <3>1, <4>3
        <5> QED BY <2>2, <3>1, <3>4, <4>3, <5>1
      <4>4. CASE x.on = call.on /\ call.op = "rules"
        <5>1. call.rules = x.rules
          BY <2>2, <3>1, <4>4
        <5> QED BY <2>2, <3>1, <3>4, <4>4, <5>1
      <4> QED BY <3>2, <4>2, <4>3, <4>4
    <3>6. \A k \in Range(rest) : k.op \in {"exit", "rules"}
      BY <2>2, <3>1
    <3> HIDE DEF rest, call
    <3> QED BY <2>1, <2>3, <3>2, <3>5, <3>6 DEF GoalAhead
  <2> QED BY <2>1, <2>3, <2>4 DEF GoalAhead
<1>4. ASSUME NEW f \in Flows, CallFails(f) PROVE GoalAhead'
  <2>1. /\ Running(f) /\ flow'[f].calls = <<>> /\ \A x \in Flows \ {f} : flow'[x] = flow[x]
    BY <1>4, Fails
  <2>2. \A x \in Flows : ~ (Running(x)' /\ flow'[x].alone)
    BY <2>1 DEF NoCompany, Running
  <2> QED BY <2>2 DEF GoalAhead
<1> QED BY <1>1, <1>2, <1>3, <1>4 DEF FlowStep

\* No save is on its way before the first page is opened.
LEMMA SaveInvInitially == Init => SaveInv
<1>1. Init => NoCompany /\ GoalAhead
  BY DEF Init, NoCompany, GoalAhead, Running, NoFlow
<1> QED BY <1>1, InitialShapes DEF SaveInv

\* The three parts of the invariant are kept together.
LEMMA SaveInvKept == SaveInv /\ [Next]_vars => SaveInv'
<1>1. SaveInv /\ Next => SaveInv'
  BY StepKeeps, NoCompanyKept, GoalAheadKept DEF SaveInv
<1>2. SaveInv /\ UNCHANGED vars => SaveInv'
  <2>1. SaveInv /\ UNCHANGED vars => FlowStep
    BY DEF vars, FlowStep, Quiet
  <2> QED BY <2>1, StutterKeeps, NoCompanyKept, GoalAheadKept DEF SaveInv
<1> QED BY <1>1, <1>2

\* The step that ends a save brings the last of its goal about.
LEMMA LastCall ==
    ASSUME SaveInv, Next
    PROVE  \A f \in Flows :
             Running(f) /\ flow'[f].calls = <<>> /\ flow'[f].ends = "well" /\ flow'[f].alone
               => \A x \in flow[f].goal : access'[x.on] = x.rules /\ (x.on \in exits' <=> x.exit)
<1> SUFFICES ASSUME NEW f \in Flows,
                    Running(f), flow'[f].calls = <<>>, flow'[f].ends = "well", flow'[f].alone,
                    NEW x \in flow[f].goal
             PROVE  access'[x.on] = x.rules /\ (x.on \in exits' <=> x.exit)
  OBVIOUS
<1> USE DEF SaveInv
<1>1. FlowStep
  BY StepKeeps
<1>2. ~ Quiet
  BY DEF Quiet, Running
<1>3. \A g \in Flows : ~ Departs(g)
  <2> SUFFICES ASSUME NEW g \in Flows, Departs(g) PROVE FALSE
    OBVIOUS
  <2>1. PICK b \in Browsers : \E calls, goal : Starts(g, b, calls, goal)
    BY DEF Departs
  <2>2. PICK calls, goal : Starts(g, b, calls, goal)
    BY <2>1
  <2>3. ~ Running(g) /\ \A y \in Flows \ {g} : flow'[y].calls = flow[y].calls
    BY <2>2, StartsAlone
  <2> QED BY <2>3 DEF Running
<1>4. \A g \in Flows : ~ CallFails(g)
  <2> SUFFICES ASSUME NEW g \in Flows, CallFails(g) PROVE FALSE
    OBVIOUS
  <2>1. flow'[g].ends = "badly" /\ \A y \in Flows \ {g} : flow'[y] = flow[y]
    BY Fails
  <2> QED BY <2>1 DEF Running
<1>5. PICK g \in Flows : CallSucceeds(g)
  BY <1>1, <1>2, <1>3, <1>4 DEF FlowStep
<1> DEFINE call == FirstOf(f)
           rest == RestOf(f)
<1>6. g = f
  <2>1. \A y \in Flows \ {g} : flow'[y] = flow[y]
    BY <1>5, Succeeds
  <2> QED BY <2>1 DEF Running
<1>7. /\ Commits(f, call) /\ flow[f].alone
      /\ call.op # "copy" => flow'[f].calls = rest
  BY <1>5, <1>6, Succeeds
<1>8. call \in Call /\ rest \in Seq(Call) /\ Range(flow[f].calls) = {call} \cup Range(rest) /\ flow[f] \in FlowState
  BY FirstCall
<1>9. /\ \A k \in Range(flow[f].calls) : k.op \in {"exit", "rules"}
      /\ \A k \in Range(flow[f].calls) : k.on = x.on =>
           (k.op = "exit" /\ k.exit = x.exit) \/ (k.op = "rules" /\ k.rules = x.rules)
      /\ (x.on \in exits <=> x.exit) \/ \E k \in Range(flow[f].calls) : k.on = x.on /\ k.op = "exit"
      /\ access[x.on] = x.rules \/ \E k \in Range(flow[f].calls) : k.on = x.on /\ k.op = "rules"
  BY <1>7 DEF GoalAhead
<1>10. call.op \in {"exit", "rules"} /\ rest = <<>>
  BY <1>7, <1>8, <1>9
<1>11. Range(flow[f].calls) = {call}
  BY <1>8, <1>10, RangeOfEmpty
<1>12. x.on \in Pairs
  BY <1>8 DEF FlowState, Goal
<1>13. \A h \in Pairs \ {call.on} : access'[h] = access[h] /\ (h \in exits' <=> h \in exits)
  BY <1>7, <1>8, CommitEffect DEF Shapes
<1>14. /\ call.op = "exit" => access' = access /\ (call.on \in exits' <=> call.exit)
       /\ call.op = "rules" => exits' = exits /\ access'[call.on] = call.rules
  BY <1>7, <1>8, CommitEffect DEF Shapes
<1> HIDE DEF call, rest
<1>15. CASE x.on # call.on
  BY <1>9, <1>11, <1>12, <1>13, <1>15
<1>16. CASE x.on = call.on
  BY <1>9, <1>10, <1>11, <1>14, <1>16
<1> QED BY <1>15, <1>16

\* RulesModal's save (RulesModal.tsx): when it ran alone and none of its calls failed,
\* every device it is for has the exit and the rules it was to have.
THEOREM SavesBringIntoLine == Spec => SaveBringsIntoLine
<1>1. Init => SaveInv
  BY SaveInvInitially
<1>2. SaveInv /\ [Next]_vars => SaveInv'
  BY SaveInvKept
<1> DEFINE InLine == \A f \in Flows :
             Running(f) /\ flow'[f].calls = <<>> /\ flow'[f].ends = "well" /\ flow'[f].alone
               => \A x \in flow[f].goal : /\ access'[x.on] = x.rules
                                          /\ x.on \in exits' <=> x.exit
<1>3. SaveInv /\ [Next]_vars => [InLine]_vars
  BY LastCall
<1> QED BY <1>1, <1>2, <1>3, PTL DEF Spec, SaveBringsIntoLine

---------------------------------------------------------------------------
(* What the layouts and the lists are of.                                  *)

\* No device is in two groups, and the panel lists every member.
Sound(m) ==
    \A g \in GroupIds : m[g] # NoGroup =>
      /\ \A c \in m[g] : Listable(c)
      /\ \A h \in GroupIds \ {g} : m[h] # NoGroup => m[g] \cap m[h] = {}

TrueList(l) == \A c \in Clients : l[c] # NoDevice => Listable(c)

Laid(m) == m = blob \/ \E b \in Browsers : m = groups[b] \/ m \in puts[b]
Told(l) == \E b \in Browsers : l = view[b] \/ l \in polls[b]

Drawn ==
    /\ \A m \in Layout : Laid(m) => Sound(m)
    /\ \A l \in Lists : Told(l) => TrueList(l)

\* No device is ever unlisted, so what was drawn stays right.
LEMMA DrawnAfter ==
    ASSUME Drawn, \A c \in Clients : Listable(c) => Listable(c)',
           \A m \in Layout : Laid(m)' => Laid(m) \/ Sound(m)',
           \A l \in Lists : Told(l)' => Told(l) \/ TrueList(l)'
    PROVE  Drawn'
<1>1. ASSUME NEW m \in Layout, Sound(m) PROVE Sound(m)'
  <2>1. \A g \in GroupIds : m[g] # NoGroup => m[g] \in SUBSET Clients
    BY GroupShape
  <2> QED BY <1>1, <2>1 DEF Sound
<1>2. ASSUME NEW l \in Lists, TrueList(l) PROVE TrueList(l)'
  BY <1>2 DEF TrueList
<1> QED BY <1>1, <1>2 DEF Drawn

\* The same devices are listed as long as the database is left alone.
LEMMA SameDevices == ASSUME UNCHANGED dbVars PROVE \A c \in Clients : Listable(c) <=> Listable(c)'
BY DEF dbVars, Listable

\* A layout without groups is of no device.
LEMMA NoGroupsSound == NoGroups \in Layout /\ Sound(NoGroups)
BY DEF NoGroups, Layout, Members, Sound

\* Part of a sound layout is sound.
LEMMA RedrawnSound ==
    ASSUME Shapes, Drawn, NEW b \in Browsers, NEW m \in Layout, Redrawn(b, m)
    PROVE  Sound(m)
<1>1. groups[b] \in Layout /\ Sound(groups[b])
  BY DEF Shapes, Drawn, Laid
<1>2. \A g \in GroupIds : m[g] # NoGroup => m[g] = {} \/ (groups[b][g] # NoGroup /\ m[g] \subseteq groups[b][g])
  BY DEF Redrawn
<1> QED BY <1>1, <1>2 DEF Sound

\* So is one with a device that was in no group and is listed.
LEMMA JoinedSound ==
    ASSUME Shapes, Drawn, NEW b \in Browsers, NEW g \in GroupIds, NEW c \in Clients,
           groups[b][g] # NoGroup, view[b][c] # NoDevice, GroupOf(b, c) = {}
    PROVE  LET m == [groups[b] EXCEPT ![g] = groups[b][g] \cup {c}]
           IN  m \in Layout /\ Sound(m)
<1>1. groups[b] \in Layout /\ Sound(groups[b]) /\ view[b] \in Lists
  BY DEF Shapes, Drawn, Laid
<1>2. Listable(c)
  BY <1>1 DEF Drawn, Told, TrueList
<1>3. \A h \in GroupIds : groups[b][h] # NoGroup => c \notin groups[b][h]
  BY DEF GroupOf
<1> DEFINE m == [groups[b] EXCEPT ![g] = groups[b][g] \cup {c}]
<1>4. groups[b][g] \in SUBSET Clients
  BY <1>1, GroupShape
<1>5. m \in Layout /\ \A h \in GroupIds : m[h] = IF h = g THEN groups[b][g] \cup {c} ELSE groups[b][h]
  BY <1>1, <1>4 DEF Layout, Members
<1> HIDE DEF m
<1>6. Sound(m)
  <2> SUFFICES ASSUME NEW h \in GroupIds, m[h] # NoGroup
               PROVE  /\ \A d \in m[h] : Listable(d)
                      /\ \A k \in GroupIds \ {h} : m[k] # NoGroup => m[h] \cap m[k] = {}
    BY DEF Sound
  <2>1. \A d \in m[h] : Listable(d)
    BY <1>1, <1>2, <1>5 DEF Sound
  <2>2. ASSUME NEW k \in GroupIds \ {h}, m[k] # NoGroup PROVE m[h] \cap m[k] = {}
    <3>1. groups[b][h] # NoGroup /\ groups[b][k] # NoGroup
      BY <1>5, <2>2
    <3>2. groups[b][h] \cap groups[b][k] = {} /\ c \notin groups[b][h] /\ c \notin groups[b][k]
      BY <1>1, <1>3, <3>1 DEF Sound
    <3> QED BY <1>5, <3>2
  <2> QED BY <2>1, <2>2
<1> QED BY <1>5, <1>6 DEF m

\* A step of the page, of a flow, or the end of a call leaves all that is drawn right.
LEMMA DrawnKept == Shapes /\ Drawn /\ Next => Drawn'
<1> SUFFICES ASSUME Shapes, Drawn, Next PROVE Drawn'
  OBVIOUS
<1>1. /\ blob \in Layout /\ groups \in [Browsers -> Layout] /\ puts \in [Browsers -> SUBSET Layout]
      /\ view \in [Browsers -> Lists] /\ polls \in [Browsers -> SUBSET Lists]
  BY DEF Shapes
<1>2. ASSUME NEW b \in Browsers, Poll(b) PROVE Drawn'
  <2>1. polls' = [polls EXCEPT ![b] = @ \cup {Listed}] /\ UNCHANGED <<dbVars, blob, groups, puts, view>>
    BY <1>2 DEF Poll
  <2>2. \A c \in Clients : Listed[c] # NoDevice => Listable(c)
    BY ExistsListable DEF Listed
  <2>3. \A c \in Clients : Listable(c) <=> Listable(c)'
    BY <2>1, SameDevices
  <2>4. \A m \in Layout : Laid(m)' => Laid(m)
    BY <2>1 DEF Laid
  <2>5. ASSUME NEW l \in Lists, Told(l)' PROVE Told(l) \/ TrueList(l)'
    <3>1. Told(l) \/ l = Listed
      BY <1>1, <2>1, <2>5 DEF Told
    <3> QED BY <2>2, <2>3, <3>1 DEF TrueList
  <2> QED BY <2>3, <2>4, <2>5, DrawnAfter
<1>3. ASSUME NEW b \in Browsers, NEW list \in polls[b], PollAnswered(b, list) PROVE Drawn'
  <2>1. /\ polls' = [polls EXCEPT ![b] = @ \ {list}] /\ view' = [view EXCEPT ![b] = list]
        /\ UNCHANGED <<dbVars, blob, groups, puts>>
    BY <1>3 DEF PollAnswered
  <2>2. \A l \in Lists : Told(l)' => Told(l)
    BY <1>1, <2>1 DEF Told
  <2> QED BY <2>1, <2>2, SameDevices, DrawnAfter DEF Laid
<1>4. ASSUME NEW b \in Browsers, OpenMap(b) \/ OpenMapFails(b) PROVE Drawn'
  <2>1. /\ groups' = [groups EXCEPT ![b] = blob] \/ groups' = [groups EXCEPT ![b] = NoGroups]
        /\ UNCHANGED <<dbVars, blob, puts, view, polls>>
    BY <1>4 DEF OpenMap, OpenMapFails
  <2>2. \A c \in Clients : Listable(c) <=> Listable(c)'
    BY <2>1, SameDevices
  <2>3. Sound(NoGroups)'
    BY DEF NoGroups, Sound
  <2>4. \A m \in Layout : Laid(m)' => Laid(m) \/ Sound(m)'
    BY <1>1, <2>1, <2>3 DEF Laid
  <2> QED BY <2>1, <2>2, <2>4, DrawnAfter DEF Told
<1>5. ASSUME NEW b \in Browsers, NEW m \in puts[b], LayoutStored(b, m) \/ LayoutLost(b, m) PROVE Drawn'
  <2>1. /\ blob' = m \/ blob' = blob
        /\ puts' = [puts EXCEPT ![b] = @ \ {m}] /\ UNCHANGED <<dbVars, groups, view, polls>>
    BY <1>5 DEF LayoutStored, LayoutLost
  <2>2. \A o \in Layout : Laid(o)' => Laid(o)
    BY <1>1, <2>1 DEF Laid
  <2> QED BY <2>1, <2>2, SameDevices, DrawnAfter DEF Told
<1>6. ASSUME NEW b \in Browsers, NEW m \in Layout, Saves(b, m), Sound(m), UNCHANGED dbVars PROVE Drawn'
  <2>1. \A c \in Clients : Listable(c) <=> Listable(c)'
    BY <1>6, SameDevices
  <2>2. /\ groups' = [groups EXCEPT ![b] = m] /\ puts' = [puts EXCEPT ![b] = @ \cup {m}]
        /\ UNCHANGED <<blob, view, polls>>
    BY <1>6 DEF Saves
  <2>3. Sound(m)'
    <3>1. \A g \in GroupIds : m[g] # NoGroup => m[g] \in SUBSET Clients
      BY GroupShape
    <3> QED BY <1>6, <2>1, <3>1 DEF Sound
  <2>4. \A o \in Layout : Laid(o)' => Laid(o) \/ Sound(o)'
    BY <1>1, <2>2, <2>3 DEF Laid
  <2> QED BY <2>1, <2>2, <2>4, DrawnAfter DEF Told
<1>7. ASSUME NEW b \in Browsers, Redraws(b) PROVE Drawn'
  <2>1. PICK m \in Layout : Redrawn(b, m)
    BY <1>7, RedrawnLayout
  <2> QED BY <1>6, <2>1, RedrawnSound DEF Redrawn
<1>8. ASSUME NEW f \in Flows, NEW b \in Browsers, NEW g \in GroupIds, NEW c \in Clients, JoinGroup(b, f, g, c)
      PROVE  Drawn'
  <2> DEFINE m == [groups[b] EXCEPT ![g] = groups[b][g] \cup {c}]
  <2>1. /\ groups[b][g] # NoGroup /\ view[b][c] # NoDevice /\ GroupOf(b, c) = {}
        /\ Saves(b, m) /\ \E calls : Starts(f, b, calls, {})
    BY <1>8 DEF JoinGroup
  <2>2. m \in Layout /\ Sound(m)
    BY <2>1, JoinedSound
  <2>3. UNCHANGED dbVars
    BY <2>1 DEF Starts
  <2> HIDE DEF m
  <2> QED BY <1>6, <2>1, <2>2, <2>3
<1>9. ASSUME UNCHANGED pageVars, \A c \in Clients : Listable(c) => Listable(c)' PROVE Drawn'
  BY <1>9, DrawnAfter DEF pageVars, Laid, Told
<1>10. ASSUME NEW f \in Flows, CallSucceeds(f) PROVE Drawn'
  <2>1. /\ \A b \in Browsers : puts'[b] \subseteq puts[b] \cup {NoGroups}
        /\ blob' = blob /\ groups' = groups /\ view' = view /\ polls' = polls
        /\ Running(f) /\ Commits(f, FirstOf(f))
    BY <1>10, Succeeds
  <2>2. \A c \in Clients : Listable(c) => Listable(c)'
    BY <2>1, FirstCall, CommitEffect DEF Shapes
  <2>3. Sound(NoGroups)'
    BY DEF NoGroups, Sound
  <2>4. \A m \in Layout : Laid(m)' => Laid(m) \/ Sound(m)'
    BY <2>1, <2>3 DEF Laid
  <2> QED BY <2>1, <2>2, <2>4, DrawnAfter DEF Told
<1>11. ASSUME NEW f \in Flows, CallFails(f) PROVE Drawn'
  <2>1. UNCHANGED pageVars /\ Running(f) /\ (Commits(f, FirstOf(f)) \/ UNCHANGED dbVars)
    BY <1>11, Fails
  <2>2. \A c \in Clients : Listable(c) => Listable(c)'
    BY <2>1, FirstCall, CommitEffect, SameDevices DEF Shapes
  <2> QED BY <1>9, <2>1, <2>2
<1>12. ASSUME UNCHANGED <<pageVars, dbVars>> PROVE Drawn'
  BY <1>9, <1>12, SameDevices
<1>13. CASE OnTheWay
  BY <1>3, <1>5, <1>10, <1>13 DEF OnTheWay
<1>14. CASE Failure
  BY <1>4, <1>5, <1>11, <1>14 DEF Failure
<1>15. ASSUME NEW b \in Browsers, Operator(b) PROVE Drawn'
  <2>1. CASE OpenMap(b) \/ Redraws(b)
    BY <1>4, <1>7, <2>1
  <2>2. CASE \E f \in Flows, g \in GroupIds, c \in Clients : JoinGroup(b, f, g, c)
    BY <1>8, <2>2
  <2>3. CASE \E f \in Flows, g \in GroupIds, n \in Present : GrantGroup(b, f, g, n) \/ RevokeGroup(b, f, g, n)
    BY <1>12, <2>3 DEF GrantGroup, RevokeGroup, Starts
  <2>4. CASE \E f \in Flows, c \in Clients, n \in Present : GrantDevice(b, f, c, n) \/ RevokeDevice(b, f, c, n)
    BY <1>12, <2>4 DEF GrantDevice, RevokeDevice, Starts
  <2>5. CASE \E f \in Flows, c \in Clients, picked \in SUBSET Present : AddDevice(b, f, c, picked)
    BY <1>12, <2>5 DEF AddDevice, Starts
  <2>6. CASE \E f \in Flows, S \in Edited(b), n \in Present, exit \in BOOLEAN, R \in SUBSET Rules :
               SaveRules(b, f, S, n, exit, R)
    BY <1>12, <2>6 DEF SaveRules, Starts
  <2> QED BY <1>15, <2>1, <2>2, <2>3, <2>4, <2>5, <2>6 DEF Operator, Redraws
<1> QED BY <1>2, <1>13, <1>14, <1>15 DEF Next

---------------------------------------------------------------------------
(* Groups that share their access.                                         *)

Value == [access : Allowed, exit : BOOLEAN]

Holds(h, v) == access[h] = v.access /\ (h \in exits <=> v.exit)

\* The call k, one of the calls C that are left, is a step towards v.
Agrees(k, C, v) ==
    /\ k.op \in {"grant", "revoke", "copy", "exit", "rules"}
    /\ k.op = "grant" => v.access # NoAccess
    /\ k.op = "revoke" => v.access = NoAccess
    /\ k.op = "exit" => (k.exit <=> v.exit)
    /\ k.op = "rules" => k.rules = v.access
    /\ k.op = "copy" => /\ k.of \in Clients /\ Holds(<<k.of, k.on[2]>>, v)
                        /\ \A j \in C : j.on # <<k.of, k.on[2]>>

\* Once the calls C have been made, in whatever order, the pair h holds v.
Leads(C, h, v) ==
    /\ v.access = NoAccess => ~ v.exit
    /\ \A k \in C : k.on = h => Agrees(k, C, v)
    /\ \/ access[h] = v.access
       \/ \E k \in C : k.on = h /\ k.op \in {"revoke", "copy", "rules"}
       \/ access[h] = NoAccess /\ v.access = Unlimited /\ \E k \in C : k.on = h /\ k.op = "grant"
    /\ \/ h \in exits <=> v.exit
       \/ \E k \in C : k.on = h /\ k.op \in {"revoke", "copy", "exit"}

\* The members of each group of the layouts L are led to the same access.
Aims(L, C, F) ==
    \A m \in L, g \in GroupIds : m[g] # NoGroup =>
      \A c \in m[g], n \in Nodes :
        /\ Leads(C, <<c, n>>, F[<<c, n>>])
        /\ \A d \in m[g] : F[<<c, n>>] = F[<<d, n>>]

CallsLeft == {k \in Call : \E f \in Flows : k \in Range(flow[f].calls)}
InPlay    == {m \in Layout : m = blob \/ \E b \in Browsers : m \in puts[b]}

\* What was settled was done alone, and is on its way to groups that share their access.
History == settled => \A f \in Flows : Running(f) => flow[f].alone
GroupsAhead ==
    settled => \E L \in SUBSET Layout, C \in SUBSET Call, F \in [Pairs -> Value] :
                 L = InPlay /\ C = CallsLeft /\ Aims(L, C, F)

SettledInv == Shapes /\ NoCompany /\ Drawn /\ History /\ GroupsAhead

\* A call that succeeds brings its pair nearer, and turns no other one away.
LEMMA LeadsOn ==
    ASSUME Shapes, NEW f \in Flows, flow[f].alone, NEW call \in Call, Commits(f, call),
           NEW R \in SUBSET Call, NEW C \in SUBSET Call, C = {call} \cup R, NEW D \in SUBSET Call,
           call.op # "copy" => D = R,
           call.op = "copy" =>
             \E e, r \in Call :
               /\ D = {e, r} \cup R
               /\ e.op = "exit" /\ e.on = call.on /\ (e.exit <=> <<call.of, call.on[2]>> \in exits)
               /\ r.op = "rules" /\ r.on = call.on /\ r.rules = access[<<call.of, call.on[2]>>],
           NEW h \in Pairs, NEW v \in Value, Leads(C, h, v)
    PROVE  Leads(D, h, v)'
<1>1. /\ \A x \in Pairs \ {call.on} : access'[x] = access[x] /\ (x \in exits' <=> x \in exits)
      /\ call.op \in {"create", "copy", "place"} => access' = access /\ exits' = exits
      /\ call.op = "grant" =>
           /\ access'[call.on] = IF access[call.on] = NoAccess THEN Unlimited ELSE access[call.on]
           /\ exits' = exits
      /\ call.op = "revoke" => access'[call.on] = NoAccess /\ call.on \notin exits'
      /\ call.op = "exit" => access' = access /\ (call.on \in exits' <=> call.exit)
      /\ call.op = "rules" => exits' = exits /\ access'[call.on] = call.rules
  BY CommitEffect DEF Shapes
<1>2. \A k \in Call : k.on \in Pairs /\ k.on[2] \in Nodes
  BY DEF Call, Pairs
<1>3. \A k \in D : k \in R \/ (call.op = "copy" /\ k.on = call.on)
  OBVIOUS
<1>4. v.access = NoAccess => ~ v.exit
  BY DEF Leads
<1>5. \A k \in C : k.on = h => Agrees(k, C, v)
  BY DEF Leads
<1>6. ASSUME NEW k \in D, k.on = h PROVE Agrees(k, D, v)'
  <2>1. CASE k \in R
    <3>1. Agrees(k, C, v)
      BY <1>5, <1>6, <2>1
    <3>2. ASSUME k.op = "copy"
          PROVE  /\ Holds(<<k.of, k.on[2]>>, v)'
                 /\ \A j \in D : j.on # <<k.of, k.on[2]>>
      <4>1. /\ <<k.of, k.on[2]>> \in Pairs /\ Holds(<<k.of, k.on[2]>>, v)
            /\ \A j \in C : j.on # <<k.of, k.on[2]>>
        BY <1>2, <3>1, <3>2 DEF Agrees, Pairs
      <4>2. <<k.of, k.on[2]>> # call.on
        BY <4>1
      <4>3. Holds(<<k.of, k.on[2]>>, v)'
        BY <1>1, <4>1, <4>2 DEF Holds
      <4> QED BY <1>3, <4>1, <4>2, <4>3
    <3> QED BY <3>1, <3>2 DEF Agrees
  <2>2. CASE k \notin R
    <3>1. call.op = "copy" /\ call.on = h
      BY <1>3, <1>6, <2>2
    <3>2. Agrees(call, C, v)
      BY <1>5, <3>1
    <3>3. Holds(<<call.of, call.on[2]>>, v)
      BY <3>1, <3>2 DEF Agrees
    <3>4. \/ k.op = "exit" /\ (k.exit <=> <<call.of, call.on[2]>> \in exits)
          \/ k.op = "rules" /\ k.rules = access[<<call.of, call.on[2]>>]
      BY <2>2, <3>1
    <3> QED BY <3>3, <3>4 DEF Agrees, Holds
  <2> QED BY <2>1, <2>2
<1>7. CASE call.on # h
  <2>1. access'[h] = access[h] /\ (h \in exits' <=> h \in exits)
    BY <1>1, <1>7
  <2>2. \A k \in C : k.on = h => k \in D
    BY <1>7
  <2> QED BY <1>4, <1>6, <2>1, <2>2 DEF Leads
<1>8. CASE call.on = h
  <2>1. Agrees(call, C, v)
    BY <1>5, <1>8
  <2>2. CASE call.op = "copy"
    <3>1. PICK e, r \in Call : D = {e, r} \cup R /\ e.op = "exit" /\ e.on = h /\ r.op = "rules" /\ r.on = h
      BY <1>8, <2>2
    <3>2. e \in D /\ r \in D
      BY <3>1
    <3>3. \E k \in D : k.on = h /\ k.op \in {"revoke", "copy", "rules"}
      BY <3>1, <3>2
    <3>4. \E k \in D : k.on = h /\ k.op \in {"revoke", "copy", "exit"}
      BY <3>1, <3>2
    <3> QED BY <1>4, <1>6, <3>3, <3>4 DEF Leads
  <2>3. ASSUME NEW k \in C, k.on = h, k.op # call.op PROVE call.op # "copy" => k \in D
    BY <2>3
  <2>4. CASE call.op = "grant"
    <3>1. v.access # NoAccess /\ exits' = exits
      BY <1>1, <2>1, <2>4 DEF Agrees
    <3>2. access'[h] = IF access[h] = NoAccess THEN Unlimited ELSE access[h]
      BY <1>1, <1>8, <2>4
    <3>3. \/ access'[h] = v.access
          \/ \E k \in D : k.on = h /\ k.op \in {"revoke", "copy", "rules"}
      BY <2>3, <2>4, <3>1, <3>2 DEF Leads
    <3>4. \/ h \in exits' <=> v.exit
          \/ \E k \in D : k.on = h /\ k.op \in {"revoke", "copy", "exit"}
      BY <2>3, <2>4, <3>1 DEF Leads
    <3> QED BY <1>4, <1>6, <3>3, <3>4 DEF Leads
  <2>5. CASE call.op = "revoke"
    <3>1. v.access = NoAccess /\ access'[h] = NoAccess /\ h \notin exits' /\ ~ v.exit
      BY <1>1, <1>4, <1>8, <2>1, <2>5 DEF Agrees
    <3> QED BY <1>4, <1>6, <3>1 DEF Leads
  <2>6. CASE call.op = "exit"
    <3>1. access' = access /\ (h \in exits' <=> v.exit)
      BY <1>1, <1>8, <2>1, <2>6 DEF Agrees
    <3>2. \/ access'[h] = v.access
          \/ \E k \in D : k.on = h /\ k.op \in {"revoke", "copy", "rules"}
          \/ access'[h] = NoAccess /\ v.access = Unlimited /\ \E k \in D : k.on = h /\ k.op = "grant"
      BY <2>3, <2>6, <3>1 DEF Leads
    <3> QED BY <1>4, <1>6, <3>1, <3>2 DEF Leads
  <2>7. CASE call.op = "rules"
    <3>1. exits' = exits /\ access'[h] = v.access
      BY <1>1, <1>8, <2>1, <2>7 DEF Agrees
    <3>2. \/ h \in exits' <=> v.exit
          \/ \E k \in D : k.on = h /\ k.op \in {"revoke", "copy", "exit"}
      BY <2>3, <2>7, <3>1 DEF Leads
    <3> QED BY <1>4, <1>6, <3>1, <3>2 DEF Leads
  <2> QED BY <2>1, <2>2, <2>4, <2>5, <2>6, <2>7 DEF Agrees
<1> QED BY <1>7, <1>8

\* Now is what a pair holds.
Now(h) == [access |-> access[h], exit |-> h \in exits]

\* A pair that no call is on is led to what it holds.
LEMMA NowHolds ==
    ASSUME Shapes, NEW h \in Pairs
    PROVE  /\ Now(h) \in Value /\ Holds(h, Now(h))
           /\ \A C : (\A k \in C : k.on # h) => Leads(C, h, Now(h))
<1>1. Now(h) \in Value /\ Now(h).access = access[h] /\ (Now(h).exit <=> h \in exits)
  <2>1. access[h] \in Allowed /\ (h \in exits) \in BOOLEAN
    BY DEF Shapes, StoreTypeOK
  <2> QED BY <2>1 DEF Now, Value
<1>2. access[h] = NoAccess => h \notin exits
  BY DEF Shapes, ExitsGranted, Granted
<1> QED BY <1>1, <1>2 DEF Holds, Leads

\* Devices that share their access hold the same.
LEMMA SameNow ==
    ASSUME Shapes, NEW c \in Clients, NEW d \in Clients
    PROVE  Same(c, d) <=> \A n \in Nodes : Now(<<c, n>>) = Now(<<d, n>>)
<1>1. \A n \in Nodes : <<c, n>> \in Pairs /\ <<d, n>> \in Pairs
  BY DEF Pairs
<1>2. \A n \in Nodes : Now(<<c, n>>) = Now(<<d, n>>) <=>
        access[<<c, n>>] = access[<<d, n>>] /\ (<<c, n>> \in exits <=> <<d, n>> \in exits)
  BY DEF Now
<1> QED BY <1>2 DEF Same

\* With nothing left to do, what was aimed at is there.
LEMMA AimsReached ==
    ASSUME Shapes, settled, GroupsAhead, \A f \in Flows : ~ Running(f)
    PROVE  \A g \in GroupIds : blob[g] # NoGroup => \A c, d \in blob[g] : Same(c, d)
<1>1. PICK L \in SUBSET Layout, C \in SUBSET Call, F \in [Pairs -> Value] :
        L = InPlay /\ C = CallsLeft /\ Aims(L, C, F)
  BY DEF GroupsAhead
<1>2. C = {}
  <2>1. \A f \in Flows : flow[f].calls \in Seq(Call) /\ flow[f].calls = <<>>
    BY DEF Shapes, FlowState, Running
  <2>2. \A f \in Flows : Range(flow[f].calls) = {}
    BY <2>1, RangeOfEmpty
  <2> QED BY <1>1, <2>2 DEF CallsLeft
<1>3. blob \in L /\ blob \in Layout
  BY <1>1 DEF InPlay, Shapes
<1>4. ASSUME NEW g \in GroupIds, blob[g] # NoGroup, NEW c \in blob[g], NEW d \in blob[g] PROVE Same(c, d)
  <2>1. ASSUME NEW n \in Nodes
        PROVE  /\ Leads({}, <<c, n>>, F[<<c, n>>]) /\ Leads({}, <<d, n>>, F[<<d, n>>])
               /\ F[<<c, n>>] = F[<<d, n>>]
    BY <1>1, <1>2, <1>3, <1>4 DEF Aims
  <2>2. ASSUME NEW h, NEW v, Leads({}, h, v) PROVE access[h] = v.access /\ (h \in exits <=> v.exit)
    BY <2>2 DEF Leads
  <2> QED BY <2>1, <2>2 DEF Same
<1> QED BY <1>4

\* The groups of the layouts L are of devices of S, which the calls C lead to W, or of
\* others, which share their access.
Divided(L, C, S, W) ==
    /\ \A k \in C : k.on[1] \in S
    /\ \A m \in L, g \in GroupIds : m[g] # NoGroup =>
         \/ m[g] \subseteq S /\ \A c \in m[g], n \in Nodes : Leads(C, <<c, n>>, W[n])
         \/ m[g] \cap S = {} /\ \A c, d \in m[g] : Same(c, d)

\* A flow that starts from an up-to-date map aims at what its calls lead the devices S
\* to; a group of others is as it was.
LEMMA AimsAt ==
    ASSUME Shapes, UNCHANGED dbVars, NEW L \in SUBSET Layout, L = InPlay',
           NEW C \in SUBSET Call, C = CallsLeft',
           NEW S \in SUBSET Clients, NEW W \in [Nodes -> Value], Divided(L, C, S, W)
    PROVE  GroupsAhead'
<1>a. PICK F : F = [h \in Pairs |-> IF h[1] \in S THEN W[h[2]] ELSE Now(h)]
  OBVIOUS
<1>1. F \in [Pairs -> Value]
  BY <1>a, NowHolds DEF Pairs
<1>2. \A c \in Clients, n \in Nodes :
        /\ <<c, n>> \in Pairs
        /\ F[<<c, n>>] = IF c \in S THEN W[n] ELSE Now(<<c, n>>)
  BY <1>a DEF Pairs
<1>3. Aims(L, C, F)
  <2> SUFFICES ASSUME NEW m \in L, NEW g \in GroupIds, m[g] # NoGroup, NEW c \in m[g], NEW n \in Nodes
               PROVE  /\ Leads(C, <<c, n>>, F[<<c, n>>])
                      /\ \A d \in m[g] : F[<<c, n>>] = F[<<d, n>>]
    BY DEF Aims
  <2>1. m[g] \in SUBSET Clients
    BY GroupShape
  <2>2. CASE m[g] \subseteq S /\ \A d \in m[g], k \in Nodes : Leads(C, <<d, k>>, W[k])
    BY <1>2, <2>1, <2>2
  <2>3. CASE m[g] \cap S = {} /\ \A d, e \in m[g] : Same(d, e)
    <3>1. \A d \in m[g] : d \in Clients /\ d \notin S /\ F[<<d, n>>] = Now(<<d, n>>)
      BY <1>2, <2>1, <2>3
    <3>2. \A d \in m[g] : Now(<<c, n>>) = Now(<<d, n>>)
      BY <2>1, <2>3, SameNow
    <3>3. ASSUME NEW k \in C, k.on = <<c, n>> PROVE FALSE
      <4>1. c \notin S
        BY <3>1
      <4>2. k.on[1] = c
        BY <3>3
      <4> QED BY <4>1, <4>2 DEF Divided
    <3>4. Leads(C, <<c, n>>, Now(<<c, n>>))
      BY <1>2, <2>1, <3>3, NowHolds
    <3> QED BY <3>1, <3>2, <3>4
  <2> QED BY <2>2, <2>3 DEF Divided
<1>4. ASSUME NEW h, NEW v, Leads(C, h, v) PROVE Leads(C, h, v)'
  <2>1. access' = access /\ exits' = exits
    BY DEF dbVars
  <2>2. ASSUME NEW k \in C, Agrees(k, C, v) PROVE Agrees(k, C, v)'
    BY <2>1, <2>2 DEF Agrees, Holds
  <2> QED BY <1>4, <2>1, <2>2 DEF Leads
<1>5. Aims(L, C, F)'
  <2>1. ASSUME NEW m \in L, NEW g \in GroupIds, m[g] # NoGroup, NEW c \in m[g], NEW n \in Nodes
        PROVE  /\ Leads(C, <<c, n>>, F[<<c, n>>])'
               /\ \A d \in m[g] : F[<<c, n>>] = F[<<d, n>>]
    <3>1. Leads(C, <<c, n>>, F[<<c, n>>]) /\ \A d \in m[g] : F[<<c, n>>] = F[<<d, n>>]
      BY <1>3, <2>1 DEF Aims
    <3>2. Leads(C, <<c, n>>, F[<<c, n>>])'
      BY <1>4, <3>1
    <3> QED BY <3>1, <3>2
  <2> QED BY <2>1 DEF Aims
<1> QED BY <1>1, <1>5 DEF GroupsAhead

\* A flow that starts settled starts from an up-to-date map with nothing else going on,
\* where the groups share their access.
LEMMA SettledStart ==
    ASSUME SettledInv, NEW f \in Flows, NEW b \in Browsers, NEW calls \in Seq(Call), NEW goal,
           Starts(f, b, calls, goal), settled'
    PROVE  /\ view[b] = Listed /\ groups[b] = blob
           /\ \A x \in Browsers : puts[x] = {}
           /\ UNCHANGED dbVars
           /\ CallsLeft' = Range(calls) /\ Range(calls) \in SUBSET Call
           /\ blob \in Layout /\ Sound(blob)
           /\ \A g \in GroupIds : blob[g] # NoGroup => \A c, d \in blob[g] : Same(c, d)
<1>1. /\ UNCHANGED dbVars /\ settled /\ UpToDate(b)
      /\ flow'[f].calls = calls
      /\ \A x \in Flows \ {f} : flow'[x].calls = flow[x].calls
  BY StartsAlone DEF SettledInv
<1>2. /\ view[b] = Listed /\ groups[b] = blob /\ \A x \in Browsers : puts[x] = {}
      /\ \A x \in Flows : ~ Running(x)
  BY <1>1 DEF UpToDate
<1>3. Range(calls) \in SUBSET Call
  BY RangeEquality
<1>4. \A x \in Flows \ {f} : Range(flow'[x].calls) = {}
  <2>1. \A x \in Flows : flow[x].calls \in Seq(Call) /\ flow[x].calls = <<>>
    BY <1>2 DEF SettledInv, Shapes, FlowState, Running
  <2> QED BY <1>1, <2>1, RangeOfEmpty
<1>5. CallsLeft' = Range(calls)
  BY <1>1, <1>3, <1>4 DEF CallsLeft
<1>6. blob \in Layout /\ Sound(blob)
  BY DEF SettledInv, Shapes, Drawn, Laid
<1>7. \A g \in GroupIds : blob[g] # NoGroup => \A c, d \in blob[g] : Same(c, d)
  BY <1>1, <1>2, AimsReached DEF SettledInv
<1> QED BY <1>1, <1>2, <1>3, <1>5, <1>6, <1>7

\* A flow for devices in no group.
LEMMA AimsElsewhere ==
    ASSUME SettledInv, NEW f \in Flows, NEW b \in Browsers, NEW calls \in Seq(Call), NEW goal,
           Starts(f, b, calls, goal), UNCHANGED pageVars,
           NEW c \in Clients, \A k \in Range(calls) : k.on[1] = c,
           settled' => \A g \in GroupIds : blob[g] # NoGroup => c \notin blob[g]
    PROVE  GroupsAhead'
<1> SUFFICES ASSUME settled' PROVE GroupsAhead'
  BY DEF GroupsAhead
<1>1. /\ UNCHANGED dbVars /\ CallsLeft' = Range(calls) /\ Range(calls) \in SUBSET Call
      /\ \A x \in Browsers : puts[x] = {}
      /\ \A g \in GroupIds : blob[g] # NoGroup => \A d, e \in blob[g] : Same(d, e)
  BY SettledStart
<1>2. PICK L : L = {m \in Layout : m = blob}
  OBVIOUS
<1>3. L = InPlay' /\ L \in SUBSET Layout
  BY <1>1, <1>2 DEF InPlay, pageVars
<1>4. PICK W : W = [n \in Nodes |-> Now(<<c, n>>)]
  OBVIOUS
<1>5. W \in [Nodes -> Value]
  BY <1>4, NowHolds DEF Pairs, SettledInv
<1>6. \A m \in L, g \in GroupIds : m[g] # NoGroup => m[g] \cap {c} = {} /\ \A d, e \in m[g] : Same(d, e)
  BY <1>1, <1>2
<1>7. PICK C : C = Range(calls)
  OBVIOUS
<1>8. C \in SUBSET Call /\ C = CallsLeft' /\ {c} \in SUBSET Clients /\ \A k \in C : k.on[1] \in {c}
  BY <1>1, <1>7
<1>9. Divided(L, C, {c}, W)
  BY <1>6, <1>8 DEF Divided
<1> QED BY <1>1, <1>3, <1>5, <1>8, <1>9, AimsAt DEF SettledInv

\* A flow for the members of a group and one node.
LEMMA AimsAtNode ==
    ASSUME SettledInv, NEW f \in Flows, NEW b \in Browsers, NEW calls \in Seq(Call), NEW goal,
           Starts(f, b, calls, goal), UNCHANGED pageVars, settled',
           NEW g \in GroupIds, blob[g] # NoGroup, NEW r \in blob[g],
           NEW n \in Nodes, NEW w \in Value,
           \A k \in Range(calls) : k.on \in blob[g] \X {n},
           \A c \in blob[g] : Leads(Range(calls), <<c, n>>, w)
    PROVE  GroupsAhead'
<1>1. /\ UNCHANGED dbVars /\ CallsLeft' = Range(calls) /\ Range(calls) \in SUBSET Call
      /\ \A x \in Browsers : puts[x] = {}
      /\ blob \in Layout /\ Sound(blob)
      /\ \A h \in GroupIds : blob[h] # NoGroup => \A d, e \in blob[h] : Same(d, e)
  BY SettledStart
<1>2. PICK L : L = {m \in Layout : m = blob}
  OBVIOUS
<1>3. L = InPlay' /\ L \in SUBSET Layout
  BY <1>1, <1>2 DEF InPlay, pageVars
<1>4. PICK S : S = blob[g]
  OBVIOUS
<1>5. S \in SUBSET Clients /\ r \in S
  BY <1>1, <1>4, GroupShape
<1>6. PICK W : W = [k \in Nodes |-> IF k = n THEN w ELSE Now(<<r, k>>)]
  OBVIOUS
<1>7. W \in [Nodes -> Value]
  BY <1>5, <1>6, NowHolds DEF Pairs, SettledInv
<1>8. PICK C : C = Range(calls)
  OBVIOUS
<1>9. C \in SUBSET Call /\ C = CallsLeft' /\ \A k \in C : k.on \in S \X {n}
  BY <1>1, <1>4, <1>8
<1>10. \A k \in C : k.on[1] \in S
  BY <1>9
<1>11. ASSUME NEW c \in S, NEW k \in Nodes PROVE Leads(C, <<c, k>>, W[k])
  <2>1. CASE k = n
    BY <1>4, <1>6, <1>8, <2>1
  <2>2. CASE k # n
    <3>1. Now(<<c, k>>) = Now(<<r, k>>)
      <4>1. Same(c, r)
        BY <1>1, <1>4
      <4> QED BY <1>5, <4>1, SameNow DEF SettledInv
    <3>2. ASSUME NEW j \in C PROVE j.on # <<c, k>>
      <4>1. PICK x \in S : j.on = <<x, n>>
        BY <1>9
      <4> QED BY <2>2, <4>1
    <3>3. <<c, k>> \in Pairs
      BY <1>5 DEF Pairs
    <3>4. Leads(C, <<c, k>>, Now(<<c, k>>))
      BY <3>2, <3>3, NowHolds DEF SettledInv
    <3> QED BY <1>6, <2>2, <3>1, <3>4
  <2> QED BY <2>1, <2>2
<1>12. ASSUME NEW m \in L, NEW h \in GroupIds, m[h] # NoGroup
       PROVE  \/ m[h] \subseteq S /\ \A c \in m[h], k \in Nodes : Leads(C, <<c, k>>, W[k])
              \/ m[h] \cap S = {} /\ \A c, d \in m[h] : Same(c, d)
  <2>1. m = blob
    BY <1>2
  <2>2. CASE h = g
    BY <1>4, <1>11, <2>1, <2>2
  <2>3. CASE h # g
    <3>1. blob[h] \cap blob[g] = {}
      BY <1>1, <1>12, <2>1, <2>3 DEF Sound
    <3> QED BY <1>1, <1>4, <1>12, <2>1, <3>1
  <2> QED BY <2>2, <2>3
<1>13. Divided(L, C, S, W)
  BY <1>10, <1>12 DEF Divided
<1> QED BY <1>1, <1>3, <1>5, <1>7, <1>9, <1>13, AimsAt DEF SettledInv

\* Linking a group to a node, and removing a line of its own.
LEMMA GroupFlowAims ==
    ASSUME SettledInv, NEW f \in Flows, NEW b \in Browsers, NEW g \in GroupIds, NEW n \in Nodes,
           GrantGroup(b, f, g, n) \/ RevokeGroup(b, f, g, n)
    PROVE  GroupsAhead'
<1> SUFFICES ASSUME settled' PROVE GroupsAhead'
  BY DEF GroupsAhead
<1>1. Shapes
  BY DEF SettledInv
<1>2. /\ UNCHANGED pageVars /\ groups[b][g] # NoGroup
      /\ \/ groups[b][g] # {} /\ \E calls \in OneByOne("grant", groups[b][g] \X {n}) : Starts(f, b, calls, {})
         \/ /\ n \in GroupGrants(b, groups[b][g])
            /\ \E calls \in OneByOne("revoke", groups[b][g] \X {n}) : Starts(f, b, calls, {})
  BY DEF GrantGroup, RevokeGroup
<1>3. groups[b][g] \in SUBSET Clients
  BY <1>1, <1>2, GroupShape DEF Shapes
<1>4. PICK S : S = groups[b][g]
  OBVIOUS
<1>5. PICK r \in S : TRUE
  BY <1>1, <1>2, <1>3, <1>4, GrantsShape
<1>6. S \in SUBSET Clients /\ S \X {n} \in SUBSET Pairs
  BY <1>3, <1>4 DEF Pairs
<1>7. PICK op \in {"grant", "revoke"} : \E calls \in OneByOne(op, S \X {n}) : Starts(f, b, calls, {})
  BY <1>2, <1>4
<1>8. PICK calls \in OneByOne(op, S \X {n}) : Starts(f, b, calls, {})
  BY <1>7
<1>9. /\ calls \in Seq(Call)
      /\ \A k \in Range(calls) : k.op = op /\ k.on \in S \X {n}
      /\ \A x \in S \X {n} : \E k \in Range(calls) : k.op = op /\ k.on = x
  <2>1. op \in Kinds
    BY DEF Kinds
  <2>2. PICK P : P = S \X {n}
    OBVIOUS
  <2> QED BY <1>6, <1>8, <2>1, <2>2, OneByOneCalls
<1>10. S = blob[g] /\ \A c, d \in blob[g] : Same(c, d)
  BY <1>2, <1>4, <1>8, <1>9, SettledStart
<1>11. PICK w : w = IF op = "grant"
                    THEN [access |-> IF access[<<r, n>>] = NoAccess THEN Unlimited ELSE access[<<r, n>>],
                          exit |-> <<r, n>> \in exits]
                    ELSE [access |-> NoAccess, exit |-> FALSE]
  OBVIOUS
<1>12. /\ access \in [Pairs -> Allowed] /\ Unlimited \in Allowed /\ NoAccess \in Allowed /\ Unlimited # NoAccess
       /\ \A h \in Pairs : access[h] = NoAccess => h \notin exits
  BY <1>1, GroupsAssumption DEF Shapes, StoreTypeOK, ExitsGranted, Granted, Unlimited, NoAccess, Allowed
<1>13. w \in Value
  <2>1. <<r, n>> \in Pairs /\ access[<<r, n>>] \in Allowed /\ (<<r, n>> \in exits) \in BOOLEAN
    BY <1>6, <1>12
  <2>2. CASE op = "grant"
    BY <1>11, <1>12, <2>1, <2>2 DEF Value
  <2>3. CASE op = "revoke"
    BY <1>11, <1>12, <2>3 DEF Value
  <2> QED BY <2>2, <2>3
<1>14. ASSUME NEW c \in S PROVE Leads(Range(calls), <<c, n>>, w)
  <2>1. /\ <<c, n>> \in Pairs /\ <<c, n>> \in S \X {n}
        /\ access[<<c, n>>] = access[<<r, n>>] /\ (<<c, n>> \in exits <=> <<r, n>> \in exits)
    BY <1>6, <1>10 DEF Same
  <2>2. \E k \in Range(calls) : k.op = op /\ k.on = <<c, n>>
    BY <1>9, <2>1
  <2>3. CASE op = "grant"
    <3>1. /\ w.access = (IF access[<<r, n>>] = NoAccess THEN Unlimited ELSE access[<<r, n>>])
          /\ w.exit <=> <<r, n>> \in exits
      BY <1>11, <2>3
    <3>2. w.access # NoAccess
      BY <1>12, <3>1
    <3>3. \A k \in Range(calls) : Agrees(k, Range(calls), w)
      BY <1>9, <2>3, <3>2 DEF Agrees
    <3> QED BY <2>1, <2>2, <2>3, <3>1, <3>2, <3>3 DEF Leads
  <2>4. CASE op = "revoke"
    <3>1. w.access = NoAccess /\ ~ w.exit
      BY <1>11, <2>4
    <3>2. \A k \in Range(calls) : Agrees(k, Range(calls), w)
      BY <1>9, <2>4, <3>1 DEF Agrees
    <3> QED BY <2>1, <2>2, <2>4, <3>1, <3>2 DEF Leads
  <2> QED BY <2>3, <2>4
<1>15. PICK goal : goal = {}
  OBVIOUS
<1>16. Starts(f, b, calls, goal)
  BY <1>8, <1>15
<1>17. blob[g] # NoGroup /\ r \in blob[g]
  BY <1>2, <1>4, <1>10
<1>18. /\ \A k \in Range(calls) : k.on \in blob[g] \X {n}
       /\ \A c \in blob[g] : Leads(Range(calls), <<c, n>>, w)
  BY <1>9, <1>10, <1>14
<1> QED BY <1>2, <1>9, <1>13, <1>16, <1>17, <1>18, AimsAtNode

\* A device in no group gets or loses a grant.
LEMMA DeviceFlowAims ==
    ASSUME SettledInv, NEW f \in Flows, NEW b \in Browsers, NEW c \in Clients, NEW n \in Nodes,
           GrantDevice(b, f, c, n) \/ RevokeDevice(b, f, c, n)
    PROVE  GroupsAhead'
<1>1. PICK op \in {"grant", "revoke"} : Starts(f, b, <<CallOn(op, c, n)>>, {})
  BY DEF GrantDevice, RevokeDevice
<1>2. UNCHANGED pageVars /\ GroupOf(b, c) = {}
  BY DEF GrantDevice, RevokeDevice
<1>3. PICK calls, goal : calls = <<CallOn(op, c, n)>> /\ goal = {}
  OBVIOUS
<1>4. CallOn(op, c, n) \in Call /\ CallOn(op, c, n).on = <<c, n>>
  BY CallShape DEF Kinds
<1>5. calls \in Seq(Call) /\ Starts(f, b, calls, goal)
  BY <1>1, <1>3, <1>4
<1>6. Range(calls) = {CallOn(op, c, n)}
  BY <1>3 DEF Range
<1>7. \A k \in Range(calls) : k.on[1] = c
  BY <1>4, <1>6
<1>8. settled' => \A g \in GroupIds : blob[g] # NoGroup => c \notin blob[g]
  <2>1. \A g \in GroupIds : groups[b][g] # NoGroup => c \notin groups[b][g]
    BY <1>2 DEF GroupOf
  <2>2. settled' => groups[b] = blob
    BY <1>5, SettledStart
  <2> QED BY <2>1, <2>2
<1> QED BY <1>2, <1>5, <1>7, <1>8, AimsElsewhere

\* A device that is only being created is in no group.
LEMMA AddDeviceAims ==
    ASSUME SettledInv, NEW f \in Flows, NEW b \in Browsers, NEW c \in Clients, NEW picked \in SUBSET Nodes,
           AddDevice(b, f, c, picked)
    PROVE  GroupsAhead'
<1>1. PICK grants \in OneByOne("grant", {c} \X picked), place \in {<<>>, <<CallOn("place", c, HubNode)>>} :
        Starts(f, b, <<CallOn("create", c, HubNode)>> \o grants \o place, {})
  BY DEF AddDevice
<1>2. UNCHANGED pageVars /\ client[c] = "absent"
  BY DEF AddDevice
<1>3. PICK calls, goal : calls = <<CallOn("create", c, HubNode)>> \o grants \o place /\ goal = {}
  OBVIOUS
<1>4. calls \in Seq(Call) /\ \A k \in Range(calls) : k.on[1] = c
  BY <1>3, AddCalls
<1>5. Starts(f, b, calls, goal)
  BY <1>1, <1>3
<1>6. \A g \in GroupIds : blob[g] # NoGroup => c \notin blob[g]
  <2>1. Sound(blob)
    BY DEF SettledInv, Shapes, Drawn, Laid
  <2> QED BY <1>2, <2>1 DEF Sound, Listable
<1> QED BY <1>2, <1>4, <1>5, <1>6, AimsElsewhere

\* A save of the rules, for a group or for a device in none.
LEMMA SaveRulesAims ==
    ASSUME SettledInv, NEW f \in Flows, NEW b \in Browsers, NEW S \in Edited(b), NEW n \in Nodes,
           NEW exit \in BOOLEAN, NEW R \in SUBSET Rules, SaveRules(b, f, S, n, exit, R)
    PROVE  GroupsAhead'
<1> DEFINE toSave == IF exit THEN R \ {CatchAll} ELSE R
           goals  == {[on |-> <<c, n>>, exit |-> exit, rules |-> toSave] : c \in S}
<1>1. S \in Edited(b) \ {NoGroup, {}} /\ UNCHANGED pageVars
  BY DEF SaveRules
<1>2. PICK s \in SetToSeqs(S) : Starts(f, b, SaveCalls(s, n, exit, toSave), goals)
  BY DEF SaveRules
<1>3. PICK calls, goal : calls = SaveCalls(s, n, exit, toSave) /\ goal = goals
  OBVIOUS
<1>4. /\ S \in SUBSET Clients /\ toSave \in SUBSET Rules
      /\ \/ \E g \in GroupIds : S = groups[b][g]
         \/ \E c \in Clients : S = {c} /\ GroupOf(b, c) = {}
  BY <1>1, EditedShape DEF SettledInv
<1>5. Starts(f, b, calls, goal)
  BY <1>2, <1>3
<1> HIDE DEF toSave, goals
<1>6. SavesOf(S, n, exit, toSave, calls)
  BY <1>3, <1>4, SaveRulesCalls
<1>7. /\ calls \in Seq(Call)
      /\ \A k \in Range(calls) :
           /\ k.on \in S \X {n}
           /\ (k.op = "exit" /\ k.exit = exit) \/ (k.op = "rules" /\ k.rules = toSave)
      /\ \A c \in S : /\ \E k \in Range(calls) : k.op = "exit" /\ k.on = <<c, n>>
                      /\ \E k \in Range(calls) : k.op = "rules" /\ k.on = <<c, n>>
  BY <1>6 DEF SavesOf
<1>8. ASSUME NEW c \in Clients, S = {c}, GroupOf(b, c) = {} PROVE GroupsAhead'
  <2>1. \A g \in GroupIds : groups[b][g] # NoGroup => c \notin groups[b][g]
    BY <1>8 DEF GroupOf
  <2>2. settled' => groups[b] = blob
    BY <1>5, <1>7, SettledStart
  <2>3. settled' => \A g \in GroupIds : blob[g] # NoGroup => c \notin blob[g]
    BY <2>1, <2>2
  <2>4. \A k \in Range(calls) : k.on[1] = c
    BY <1>7, <1>8
  <2> QED BY <1>1, <1>5, <1>7, <2>3, <2>4, AimsElsewhere
<1>9. ASSUME NEW g \in GroupIds, S = groups[b][g], settled' PROVE GroupsAhead'
  <2>1. S = blob[g]
    BY <1>5, <1>7, <1>9, SettledStart
  <2>2. PICK r \in S : TRUE
    BY <1>1
  <2>3. blob[g] # NoGroup /\ r \in blob[g]
    BY <1>1, <2>1, <2>2
  <2>4. PICK w : w = [access |-> toSave, exit |-> exit]
    OBVIOUS
  <2>5. w \in Value /\ w.access = toSave /\ w.exit = exit /\ toSave # NoAccess
    BY <1>4, <2>4, GroupsAssumption DEF Value, Allowed, NoAccess
  <2>6. \A k \in Range(calls) : Agrees(k, Range(calls), w)
    BY <1>7, <2>5 DEF Agrees
  <2>7. \A c \in S : Leads(Range(calls), <<c, n>>, w)
    BY <1>7, <2>5, <2>6 DEF Leads
  <2>8. /\ \A k \in Range(calls) : k.on \in blob[g] \X {n}
        /\ \A c \in blob[g] : Leads(Range(calls), <<c, n>>, w)
    BY <1>7, <2>1, <2>7
  <2> QED BY <1>1, <1>5, <1>7, <1>9, <2>3, <2>5, <2>8, AimsAtNode
<1>10. ~ settled' => GroupsAhead'
  BY DEF GroupsAhead
<1> QED BY <1>4, <1>8, <1>9, <1>10

\* What an up-to-date page shows of a device that is listed.
LEMMA ShownNow ==
    ASSUME Shapes, NEW b \in Browsers, view[b] = Listed, NEW c \in Clients
    PROVE  /\ Listable(c) <=> view[b][c] # NoDevice
           /\ Listable(c) => \A n \in Nodes : n \in view[b][c] <=> access[<<c, n>>] # NoAccess
<1>1. view[b][c] = IF Exists(c) THEN {n \in Nodes : <<c, n>> \in Granted} ELSE NoDevice
  BY DEF Listed
<1>2. {n \in Nodes : <<c, n>> \in Granted} # NoDevice
  BY GroupsAssumption DEF NoDevice
<1>3. \A n \in Nodes : <<c, n>> \in Granted <=> access[<<c, n>>] # NoAccess
  BY DEF Granted, Pairs
<1> QED BY <1>1, <1>2, <1>3, ExistsListable

\* The calls of a join lead the device to what the members of its group hold.
LEMMA JoinLeads ==
    ASSUME Shapes, NEW b \in Browsers, view[b] = Listed,
           NEW S \in SUBSET Clients, \A d \in S : Listable(d), \A d, e \in S : Same(d, e),
           NEW r \in S, NEW c \in Clients, c \notin S, Listable(c),
           NEW C \in SUBSET Call, NEW calls, C = Range(calls),
           JoinsOf(b, S, c, view[b][c], GroupGrants(b, S), calls), NEW n \in Nodes
    PROVE  Leads(C, <<c, n>>, Now(<<r, n>>))
<1> DEFINE shown  == view[b][c]
           target == GroupGrants(b, S)
           v      == Now(<<r, n>>)
<1>1. /\ \A k \in Range(calls) :
           \E x \in Nodes :
             /\ k.on = <<c, x>>
             /\ \/ k.op = "grant" /\ x \in target \ shown
                \/ k.op = "revoke" /\ x \in shown \ target
                \/ /\ k.op = "copy" /\ x \in target
                   /\ k.of \in Shown(b, S) /\ x \in view[b][k.of]
      /\ \A x \in shown \ target : \E k \in Range(calls) : k.op = "revoke" /\ k.on = <<c, x>>
      /\ \A x \in target : \A m \in Shown(b, S) :
           x \in view[b][m] => \E k \in Range(calls) : k.op = "copy" /\ k.on = <<c, x>>
  BY DEF JoinsOf
<1>2. Shown(b, S) = S
  BY ShownNow DEF Shown
<1>3. \A d \in S : \A x \in Nodes : x \in view[b][d] <=> access[<<r, x>>] # NoAccess
  <2>1. ASSUME NEW d \in S, NEW x \in Nodes PROVE x \in view[b][d] <=> access[<<r, x>>] # NoAccess
    <3>1. access[<<d, x>>] = access[<<r, x>>]
      BY DEF Same
    <3>2. d \in Clients /\ Listable(d)
      OBVIOUS
    <3>3. x \in view[b][d] <=> access[<<d, x>>] # NoAccess
      BY <3>2, ShownNow
    <3> QED BY <3>1, <3>3
  <2> QED BY <2>1
<1>4. \A x \in Nodes : x \in target <=> access[<<r, x>>] # NoAccess
  BY <1>3, GrantsShape
<1>5. \A x \in Nodes : x \in shown <=> access[<<c, x>>] # NoAccess
  BY ShownNow
<1>6. /\ <<r, n>> \in Pairs /\ <<c, n>> \in Pairs
      /\ v.access = access[<<r, n>>] /\ (v.exit <=> <<r, n>> \in exits)
  BY DEF Now, Pairs
<1>7. \A h \in Pairs : access[h] = NoAccess => h \notin exits
  BY DEF Shapes, ExitsGranted, Granted
<1> HIDE DEF shown, target, v
<1>8. ASSUME NEW k \in C, k.on = <<c, n>> PROVE Agrees(k, C, v)
  <2>1. PICK x \in Nodes :
          /\ k.on = <<c, x>>
          /\ \/ k.op = "grant" /\ x \in target \ shown
             \/ k.op = "revoke" /\ x \in shown \ target
             \/ k.op = "copy" /\ x \in target /\ k.of \in Shown(b, S) /\ x \in view[b][k.of]
    BY <1>1, <1>8
  <2>2. x = n /\ k.on[2] = n
    BY <1>8, <2>1
  <2>3. CASE k.op = "grant"
    BY <1>4, <1>6, <2>1, <2>2, <2>3 DEF Agrees
  <2>4. CASE k.op = "revoke"
    BY <1>4, <1>6, <2>1, <2>2, <2>4 DEF Agrees
  <2>5. CASE k.op = "copy"
    <3>1. k.of \in S /\ k.of \in Clients
      BY <1>2, <2>1, <2>5
    <3>2. Holds(<<k.of, n>>, v)
      <4>1. access[<<k.of, n>>] = access[<<r, n>>] /\ (<<k.of, n>> \in exits <=> <<r, n>> \in exits)
        BY <3>1 DEF Same
      <4> QED BY <1>6, <4>1 DEF Holds
    <3>3. ASSUME NEW j \in C PROVE j.on # <<k.of, n>>
      <4>1. PICK y \in Nodes : j.on = <<c, y>>
        BY <1>1
      <4>2. c # k.of
        BY <3>1
      <4> QED BY <4>1, <4>2
    <3> QED BY <2>2, <2>5, <3>1, <3>2, <3>3 DEF Agrees
  <2> QED BY <2>1, <2>3, <2>4, <2>5
<1>9. v.access = NoAccess => ~ v.exit
  BY <1>6, <1>7
<1>10. CASE n \in target
  <2>1. n \in view[b][r]
    BY <1>3, <1>4, <1>10
  <2>2. \E k \in C : k.op = "copy" /\ k.on = <<c, n>>
    BY <1>1, <1>2, <1>10, <2>1
  <2> QED BY <1>8, <1>9, <2>2 DEF Leads, v
<1>11. CASE n \notin target
  <2>1. v.access = NoAccess /\ ~ v.exit
    BY <1>4, <1>6, <1>9, <1>11
  <2>2. CASE n \in shown
    <3>1. \E k \in C : k.op = "revoke" /\ k.on = <<c, n>>
      BY <1>1, <1>11, <2>2
    <3> QED BY <1>8, <1>9, <3>1 DEF Leads, v
  <2>3. CASE n \notin shown
    <3>1. access[<<c, n>>] = v.access /\ (<<c, n>> \in exits <=> v.exit)
      BY <1>5, <1>6, <1>7, <2>1, <2>3
    <3> QED BY <1>8, <1>9, <3>1 DEF Leads, v
  <2> QED BY <2>2, <2>3
<1> QED BY <1>10, <1>11

\* A join of an up-to-date map, with every step of which the page's plan agrees
\* (joinGroup, AccessGraph.tsx).
LEMMA JoinAims ==
    ASSUME SettledInv, NEW f \in Flows, NEW b \in Browsers, NEW g \in GroupIds, NEW c \in Clients,
           JoinGroup(b, f, g, c)
    PROVE  GroupsAhead'
<1> SUFFICES ASSUME settled' PROVE GroupsAhead'
  BY DEF GroupsAhead
<1>1. Shapes
  BY DEF SettledInv
<1>2. /\ groups[b][g] # NoGroup /\ view[b][c] # NoDevice /\ GroupOf(b, c) = {}
      /\ Saves(b, [groups[b] EXCEPT ![g] = groups[b][g] \cup {c}])
  BY DEF JoinGroup
<1>3. PICK S, shown, target :
        /\ S = groups[b][g] /\ shown = view[b][c]
        /\ target = IF S = {} THEN shown ELSE GroupGrants(b, S)
  OBVIOUS
<1>4. S \in SUBSET Clients /\ shown \in SUBSET Nodes /\ target \in SUBSET Nodes
  <2>1. S \in SUBSET Clients
    BY <1>1, <1>2, <1>3, GroupShape DEF Shapes
  <2>2. shown \in SUBSET Nodes /\ GroupGrants(b, S) \in SUBSET Nodes
    BY <1>1, <1>2, <1>3, <2>1, GrantsShape
  <2> QED BY <1>3, <2>1, <2>2
<1>5. PICK add \in OneByOne("grant", {c} \X (target \ shown)),
           remove \in OneByOne("revoke", {c} \X (shown \ target)),
           copies \in Copies(b, S, c, target) : Starts(f, b, add \o remove \o copies, {})
  BY <1>3 DEF JoinGroup
<1>6. PICK calls, goal : calls = add \o remove \o copies /\ goal = {}
  OBVIOUS
<1>7. JoinsOf(b, S, c, shown, target, calls) /\ Starts(f, b, calls, goal)
  BY <1>1, <1>4, <1>5, <1>6, JoinCalls
<1>8. /\ calls \in Seq(Call)
      /\ \A k \in Range(calls) :
           \E x \in Nodes :
             /\ k.on = <<c, x>>
             /\ \/ k.op = "grant" /\ x \in target \ shown
                \/ k.op = "revoke" /\ x \in shown \ target
                \/ /\ k.op = "copy" /\ x \in target
                   /\ k.of \in Shown(b, S) /\ x \in view[b][k.of]
  BY <1>7 DEF JoinsOf
<1>9. /\ view[b] = Listed /\ groups[b] = blob /\ \A x \in Browsers : puts[x] = {}
      /\ UNCHANGED dbVars
      /\ CallsLeft' = Range(calls) /\ Range(calls) \in SUBSET Call
      /\ blob \in Layout /\ Sound(blob)
      /\ \A h \in GroupIds : blob[h] # NoGroup => \A d, e \in blob[h] : Same(d, e)
  BY <1>7, <1>8, SettledStart
<1>10. /\ \A h \in GroupIds : blob[h] # NoGroup => c \notin blob[h]
       /\ S = blob[g] /\ S # NoGroup /\ c \notin S /\ Listable(c) /\ \A d \in S : Listable(d)
  <2>1. \A h \in GroupIds : groups[b][h] # NoGroup => c \notin groups[b][h]
    BY <1>2 DEF GroupOf
  <2>2. Listable(c)
    BY <1>1, <1>2, <1>9, ShownNow
  <2> QED BY <1>2, <1>3, <1>9, <2>1, <2>2 DEF Sound
<1>11. PICK m : m = [blob EXCEPT ![g] = S \cup {c}]
  OBVIOUS
<1>12. m \in Layout /\ \A h \in GroupIds : m[h] = IF h = g THEN S \cup {c} ELSE blob[h]
  BY <1>4, <1>9, <1>11 DEF Layout, Members
<1>13. PICK L : L = {blob, m}
  OBVIOUS
<1>14. L \in SUBSET Layout /\ L = InPlay'
  <2>1. /\ puts' = [puts EXCEPT ![b] = @ \cup {m}] /\ blob' = blob
    BY <1>2, <1>3, <1>9, <1>11 DEF Saves
  <2>2. \A x \in Browsers : puts'[x] = IF x = b THEN {m} ELSE {}
    BY <1>1, <1>9, <2>1 DEF Shapes
  <2> QED BY <1>9, <1>12, <1>13, <2>1, <2>2 DEF InPlay
<1>15. PICK C : C = Range(calls)
  OBVIOUS
<1>16. C \in SUBSET Call /\ C = CallsLeft'
  BY <1>9, <1>15
<1>17. PICK T : T = S \cup {c}
  OBVIOUS
<1>18. T \in SUBSET Clients /\ \A k \in C : k.on[1] \in T
  BY <1>4, <1>8, <1>15, <1>17
<1>19. PICK r \in T : S # {} => r \in S
  BY <1>17
<1>20. PICK W : W = [n \in Nodes |-> Now(<<r, n>>)]
  OBVIOUS
<1>21. W \in [Nodes -> Value]
  BY <1>1, <1>18, <1>20, NowHolds DEF Pairs
<1>22. ASSUME NEW d \in S, NEW n \in Nodes PROVE Leads(C, <<d, n>>, W[n])
  <2>1. Same(d, r) /\ d \in Clients /\ r \in Clients /\ <<d, n>> \in Pairs
    BY <1>4, <1>9, <1>10, <1>19 DEF Pairs
  <2>2. Now(<<d, n>>) = W[n]
    BY <1>1, <1>20, <2>1, SameNow
  <2>3. ASSUME NEW k \in C PROVE k.on # <<d, n>>
    <3>1. PICK x \in Nodes : k.on = <<c, x>>
      BY <1>8, <1>15
    <3>2. c # d
      BY <1>10
    <3> QED BY <3>1, <3>2
  <2>4. Leads(C, <<d, n>>, Now(<<d, n>>))
    BY <1>1, <2>1, <2>3, NowHolds
  <2> QED BY <2>2, <2>4
<1>23. ASSUME NEW n \in Nodes PROVE Leads(C, <<c, n>>, W[n])
  <2>1. CASE S = {}
    <3>1. shown = target /\ Shown(b, S) = {}
      BY <1>3, <2>1 DEF Shown
    <3>2. C = {}
      BY <1>8, <1>15, <3>1
    <3>3. r = c /\ <<c, n>> \in Pairs
      BY <1>17, <1>19, <2>1 DEF Pairs
    <3>4. Leads(C, <<c, n>>, Now(<<c, n>>))
      BY <1>1, <3>2, <3>3, NowHolds
    <3> QED BY <1>20, <3>3, <3>4
  <2>2. CASE S # {}
    <3>1. r \in S /\ JoinsOf(b, S, c, view[b][c], GroupGrants(b, S), calls)
      BY <1>3, <1>7, <1>19, <2>2
    <3>2. \A d, e \in S : Same(d, e)
      BY <1>9, <1>10
    <3>3. Leads(C, <<c, n>>, Now(<<r, n>>))
      BY <1>1, <1>4, <1>9, <1>10, <1>15, <1>16, <3>1, <3>2, JoinLeads
    <3> QED BY <1>20, <3>3
  <2> QED BY <2>1, <2>2
<1>24. ASSUME NEW o \in L, NEW h \in GroupIds, o[h] # NoGroup
       PROVE  \/ o[h] \subseteq T /\ \A d \in o[h], n \in Nodes : Leads(C, <<d, n>>, W[n])
              \/ o[h] \cap T = {} /\ \A d, e \in o[h] : Same(d, e)
  <2>1. CASE h = g
    <3>1. o[h] \subseteq S \cup {c}
      BY <1>10, <1>12, <1>13, <2>1
    <3> QED BY <1>17, <1>22, <1>23, <3>1
  <2>2. CASE h # g
    <3>1. o[h] = blob[h] /\ blob[h] # NoGroup
      BY <1>12, <1>13, <1>24, <2>2
    <3>2. blob[h] \cap S = {} /\ c \notin blob[h]
      BY <1>9, <1>10, <2>2, <3>1 DEF Sound
    <3> QED BY <1>9, <1>17, <3>1, <3>2
  <2> QED BY <2>1, <2>2
<1>25. Divided(L, C, T, W)
  BY <1>18, <1>24 DEF Divided
<1> QED BY <1>1, <1>9, <1>14, <1>16, <1>18, <1>21, <1>25, AimsAt

\* A step that only the page takes leaves what is aimed at alone.
LEMMA QuietAims ==
    ASSUME SettledInv, Quiet,
           settled' => settled /\ \A m \in Layout : m \in InPlay' =>
                         \/ m \in InPlay
                         \/ \A g \in GroupIds : m[g] # NoGroup =>
                              m[g] = {} \/ \E o \in InPlay, h \in GroupIds : o[h] # NoGroup /\ m[g] \subseteq o[h]
    PROVE  GroupsAhead'
<1> SUFFICES ASSUME settled' PROVE GroupsAhead'
  BY DEF GroupsAhead
<1>1. PICK L \in SUBSET Layout, C \in SUBSET Call, F \in [Pairs -> Value] :
        L = InPlay /\ C = CallsLeft /\ Aims(L, C, F)
  BY DEF SettledInv, GroupsAhead
<1>2. C = CallsLeft'
  BY <1>1 DEF Quiet, CallsLeft
<1>3. PICK M : M = InPlay'
  OBVIOUS
<1>4. M \in SUBSET Layout
  BY <1>3 DEF InPlay
<1>5. Aims(M, C, F)
  <2> SUFFICES ASSUME NEW m \in M, NEW g \in GroupIds, m[g] # NoGroup, NEW c \in m[g], NEW n \in Nodes
               PROVE  /\ Leads(C, <<c, n>>, F[<<c, n>>])
                      /\ \A d \in m[g] : F[<<c, n>>] = F[<<d, n>>]
    BY DEF Aims
  <2>1. \E o \in L, h \in GroupIds : o[h] # NoGroup /\ m[g] \subseteq o[h]
    BY <1>1, <1>3, <1>4
  <2> QED BY <1>1, <2>1 DEF Aims
<1>6. ASSUME NEW h, NEW v, Leads(C, h, v) PROVE Leads(C, h, v)'
  <2>1. access' = access /\ exits' = exits
    BY DEF Quiet, dbVars
  <2>2. ASSUME NEW k \in C, Agrees(k, C, v) PROVE Agrees(k, C, v)'
    BY <2>1, <2>2 DEF Agrees, Holds
  <2> QED BY <1>6, <2>1, <2>2 DEF Leads
<1>7. Aims(M, C, F)'
  <2>1. ASSUME NEW m \in M, NEW g \in GroupIds, m[g] # NoGroup, NEW c \in m[g], NEW n \in Nodes
        PROVE  /\ Leads(C, <<c, n>>, F[<<c, n>>])'
               /\ \A d \in m[g] : F[<<c, n>>] = F[<<d, n>>]
    <3>1. Leads(C, <<c, n>>, F[<<c, n>>]) /\ \A d \in m[g] : F[<<c, n>>] = F[<<d, n>>]
      BY <1>5, <2>1 DEF Aims
    <3>2. Leads(C, <<c, n>>, F[<<c, n>>])'
      BY <1>6, <3>1
    <3> QED BY <3>1, <3>2
  <2> QED BY <2>1 DEF Aims
<1> QED BY <1>2, <1>3, <1>4, <1>7 DEF GroupsAhead

\* What the page loads and what becomes of its blobs changes no group's aim.
LEMMA PageAims ==
    ASSUME SettledInv, NEW b \in Browsers,
           \/ Poll(b) \/ OpenMap(b) \/ OpenMapFails(b)
           \/ \E list \in polls[b] : PollAnswered(b, list)
           \/ \E m \in puts[b] : LayoutStored(b, m) \/ LayoutLost(b, m)
    PROVE  GroupsAhead'
<1>1. Quiet /\ settled' = settled
  BY DEF Quiet, Poll, OpenMap, OpenMapFails, PollAnswered, LayoutStored, LayoutLost
<1>2. puts \in [Browsers -> SUBSET Layout]
  BY DEF SettledInv, Shapes
<1>3. ASSUME NEW m \in Layout, m \in InPlay' PROVE m \in InPlay
  BY <1>2, <1>3 DEF InPlay, Poll, OpenMap, OpenMapFails, PollAnswered, LayoutStored, LayoutLost
<1> QED BY <1>1, <1>3, QuietAims

\* Nor does a layout that only takes devices out of groups.
LEMMA RedrawAims ==
    ASSUME SettledInv, NEW b \in Browsers, Redraws(b)
    PROVE  GroupsAhead'
<1>1. PICK m \in Layout : Redrawn(b, m)
  BY RedrawnLayout DEF SettledInv
<1>2. /\ Saves(b, m) /\ Quiet /\ settled' = (settled /\ UpToDate(b))
      /\ \A g \in GroupIds : m[g] # NoGroup => m[g] = {} \/ (groups[b][g] # NoGroup /\ m[g] \subseteq groups[b][g])
  BY <1>1 DEF Redrawn, Quiet
<1>3. puts \in [Browsers -> SUBSET Layout] /\ blob \in InPlay
  BY DEF SettledInv, Shapes, InPlay
<1>4. ASSUME NEW o \in Layout, o \in InPlay' PROVE o \in InPlay \/ o = m
  BY <1>2, <1>3, <1>4 DEF InPlay, Saves
<1>5. settled' => settled /\ groups[b] = blob
  BY <1>2 DEF UpToDate
<1>6. settled' => \A o \in Layout : o \in InPlay' =>
        \/ o \in InPlay
        \/ \A g \in GroupIds : o[g] # NoGroup =>
             o[g] = {} \/ \E x \in InPlay, h \in GroupIds : x[h] # NoGroup /\ o[g] \subseteq x[h]
  BY <1>2, <1>3, <1>4, <1>5
<1> QED BY <1>2, <1>5, <1>6, QuietAims

\* A call that succeeds: nothing else runs, and what is left still leads there.
LEMMA SucceedsAims ==
    ASSUME SettledInv, NEW f \in Flows, CallSucceeds(f)
    PROVE  GroupsAhead'
<1> SUFFICES ASSUME settled' PROVE GroupsAhead'
  BY DEF GroupsAhead
<1>1. Shapes
  BY DEF SettledInv
<1>2. PICK call, rest : call = FirstOf(f) /\ rest = RestOf(f)
  OBVIOUS
<1>3. /\ Running(f) /\ Commits(f, call) /\ settled
      /\ flow' \in [Flows -> FlowState]
      /\ \A x \in Flows \ {f} : flow'[x] = flow[x]
      /\ call.op # "copy" => flow'[f].calls = rest
      /\ call.op = "copy" => /\ <<call.of, call.on[2]>> \in Granted
                             /\ flow'[f].calls = Copied(call) \o rest
      /\ \A b \in Browsers : puts'[b] \subseteq puts[b] \cup {NoGroups}
      /\ blob' = blob
  BY <1>1, <1>2, Succeeds
<1>4. call \in Call /\ rest \in Seq(Call) /\ Range(flow[f].calls) = {call} \cup Range(rest)
  BY <1>1, <1>2, <1>3, FirstCall
<1>5. flow[f].alone /\ \A x \in Flows \ {f} : flow[x].calls = <<>>
  BY <1>3 DEF SettledInv, History, NoCompany, Running
<1>6. \A x \in Flows \ {f} : Range(flow[x].calls) = {} /\ Range(flow'[x].calls) = {}
  <2>1. \A x \in Flows \ {f} : flow[x].calls \in Seq(Call) /\ flow[x].calls = <<>>
    BY <1>1, <1>5 DEF Shapes, FlowState
  <2> QED BY <1>3, <2>1, RangeOfEmpty
<1>7. PICK L \in SUBSET Layout, C \in SUBSET Call, F \in [Pairs -> Value] :
        L = InPlay /\ C = CallsLeft /\ Aims(L, C, F)
  BY <1>3 DEF SettledInv, GroupsAhead
<1>8. PICK R : R = Range(rest)
  OBVIOUS
<1>9. R \in SUBSET Call /\ C = {call} \cup R
  <2>1. R \in SUBSET Call
    BY <1>4, <1>8, RangeEquality
  <2>2. \A k \in Call : k \in C <=> k \in Range(flow[f].calls)
    BY <1>6, <1>7 DEF CallsLeft
  <2> QED BY <1>4, <1>7, <1>8, <2>1, <2>2
<1>10. PICK D : D = CallsLeft'
  OBVIOUS
<1>11. D \in SUBSET Call /\ \A k \in Call : k \in D <=> k \in Range(flow'[f].calls)
  BY <1>6, <1>10 DEF CallsLeft
<1>12. call.op # "copy" => D = R
  BY <1>3, <1>8, <1>9, <1>11
<1>13. ASSUME call.op = "copy"
       PROVE  \E e, r \in Call :
                /\ D = {e, r} \cup R
                /\ e.op = "exit" /\ e.on = call.on /\ (e.exit <=> <<call.of, call.on[2]>> \in exits)
                /\ r.op = "rules" /\ r.on = call.on /\ r.rules = access[<<call.of, call.on[2]>>]
  <2>1. Copied(call) \in Seq(Call)
    BY <1>1, <1>3, <1>4, <1>13, CopiedCalls
  <2>2. PICK e, r \in Call :
          /\ Range(Copied(call)) = {e, r}
          /\ e.op = "exit" /\ e.on = call.on /\ (e.exit <=> <<call.of, call.on[2]>> \in exits)
          /\ r.op = "rules" /\ r.on = call.on /\ r.rules = access[<<call.of, call.on[2]>>]
    BY <1>1, <1>3, <1>4, <1>13, CopiedCalls
  <2>3. Range(flow'[f].calls) = {e, r} \cup R
    <3>1. Range(Copied(call) \o rest) = Range(Copied(call)) \cup Range(rest)
      BY <1>4, <2>1, RangeConcatenation
    <3> QED BY <1>3, <1>8, <1>13, <2>2, <3>1
  <2>4. D = {e, r} \cup R
    BY <1>9, <1>11, <2>3
  <2> QED BY <2>2, <2>4
<1>14. ASSUME NEW h \in Pairs, NEW v \in Value, Leads(C, h, v) PROVE Leads(D, h, v)'
  BY <1>1, <1>3, <1>4, <1>5, <1>9, <1>11, <1>12, <1>13, <1>14, LeadsOn
<1>15. PICK M : M = InPlay'
  OBVIOUS
<1>16. M \in SUBSET Layout /\ \A m \in M : m \in L \/ m = NoGroups
  BY <1>3, <1>7, <1>15 DEF InPlay
<1>17. Aims(M, D, F)'
  <2>1. ASSUME NEW m \in M, NEW g \in GroupIds, m[g] # NoGroup, NEW c \in m[g], NEW n \in Nodes
        PROVE  /\ Leads(D, <<c, n>>, F[<<c, n>>])'
               /\ \A d \in m[g] : F[<<c, n>>] = F[<<d, n>>]
    <3>1. m \in L
      BY <1>16, <2>1 DEF NoGroups
    <3>2. Leads(C, <<c, n>>, F[<<c, n>>]) /\ \A d \in m[g] : F[<<c, n>>] = F[<<d, n>>]
      BY <1>7, <2>1, <3>1 DEF Aims
    <3>3. <<c, n>> \in Pairs /\ F[<<c, n>>] \in Value
      <4>1. c \in Clients
        BY <1>16, <2>1, GroupShape
      <4>2. <<c, n>> \in Pairs
        BY <4>1 DEF Pairs
      <4> QED BY <1>7, <4>2
    <3>4. Leads(D, <<c, n>>, F[<<c, n>>])'
      BY <1>14, <3>2, <3>3
    <3> QED BY <3>2, <3>4
  <2> QED BY <2>1 DEF Aims
<1> QED BY <1>10, <1>11, <1>15, <1>16, <1>17 DEF GroupsAhead

\* Only a flow that starts alone starts settled, and it stays alone or nothing is settled.
LEMMA HistoryKept ==
    ASSUME Shapes, History, NEW b \in Browsers, settled' => settled /\ UpToDate(b),
           NEW f \in Flows, NEW calls, NEW goal, Starts(f, b, calls, goal)
    PROVE  History'
<1> SUFFICES ASSUME settled' PROVE \A x \in Flows : Running(x)' => flow'[x].alone
  BY DEF History
<1>1. \A x \in Flows : ~ Running(x)
  BY DEF UpToDate
<1>2. /\ flow'[f].alone <=> \A y \in Flows : ~ Running(y)
      /\ \A x \in Flows \ {f} : flow'[x].calls = flow[x].calls
  BY StartsAlone
<1> QED BY <1>1, <1>2 DEF Running

\* Every action keeps a settled history settled on the way to shared access, or ends it.
LEMMA SettledInvKept == SettledInv /\ Next => History' /\ GroupsAhead'
<1> SUFFICES ASSUME SettledInv, Next PROVE History' /\ GroupsAhead'
  OBVIOUS
<1>1. Shapes /\ History
  BY DEF SettledInv
<1>2. ASSUME NEW b \in Browsers, NEW f \in Flows, NEW calls, NEW goal, Starts(f, b, calls, goal)
      PROVE  History'
  <2>1. settled' => settled /\ UpToDate(b)
    BY <1>2 DEF Starts
  <2> QED BY <1>1, <1>2, <2>1, HistoryKept
<1>3. ASSUME UNCHANGED flow, settled' => settled PROVE History'
  BY <1>1, <1>3 DEF History, Running
<1>4. ASSUME NEW b \in Browsers,
             \/ Poll(b) \/ OpenMap(b) \/ OpenMapFails(b)
             \/ \E list \in polls[b] : PollAnswered(b, list)
             \/ \E m \in puts[b] : LayoutStored(b, m) \/ LayoutLost(b, m)
      PROVE  History' /\ GroupsAhead'
  <2>1. UNCHANGED flow /\ settled' = settled
    BY <1>4 DEF Poll, OpenMap, OpenMapFails, PollAnswered, LayoutStored, LayoutLost
  <2> QED BY <1>3, <1>4, <2>1, PageAims
<1>5. ASSUME NEW b \in Browsers, Redraws(b) PROVE History' /\ GroupsAhead'
  <2>1. UNCHANGED flow /\ (settled' => settled)
    BY <1>1, <1>5, RedrawnLayout DEF Redrawn
  <2> QED BY <1>3, <1>5, <2>1, RedrawAims
<1>6. ASSUME NEW f \in Flows, CallSucceeds(f) PROVE History' /\ GroupsAhead'
  <2>1. /\ Running(f) /\ settled' = settled /\ flow'[f].alone = flow[f].alone
        /\ \A x \in Flows \ {f} : flow'[x] = flow[x]
    BY <1>1, <1>6, Succeeds
  <2>2. History'
    BY <1>1, <2>1 DEF History, Running
  <2> QED BY <1>6, <2>2, SucceedsAims
<1>7. ASSUME NEW f \in Flows, CallFails(f) PROVE History' /\ GroupsAhead'
  <2>1. ~ settled'
    BY <1>1, <1>7, Fails
  <2> QED BY <2>1 DEF History, GroupsAhead
<1>8. CASE OnTheWay
  BY <1>4, <1>6, <1>8 DEF OnTheWay
<1>9. CASE Failure
  BY <1>4, <1>7, <1>9 DEF Failure
<1>10. ASSUME NEW b \in Browsers, Operator(b) PROVE History' /\ GroupsAhead'
  <2>1. \A n \in Present : n \in Nodes
    BY DEF Present
  <2>2. CASE OpenMap(b) \/ Redraws(b)
    BY <1>4, <1>5, <2>2
  <2>3. ASSUME NEW f \in Flows, NEW g \in GroupIds, NEW c \in Clients, JoinGroup(b, f, g, c)
        PROVE  History' /\ GroupsAhead'
    <3>1. \E calls : Starts(f, b, calls, {})
      BY <2>3 DEF JoinGroup
    <3> QED BY <1>2, <2>3, <3>1, JoinAims
  <2>4. ASSUME NEW f \in Flows, NEW g \in GroupIds, NEW n \in Present,
               GrantGroup(b, f, g, n) \/ RevokeGroup(b, f, g, n)
        PROVE  History' /\ GroupsAhead'
    <3>1. \E calls : Starts(f, b, calls, {})
      BY <2>4 DEF GrantGroup, RevokeGroup
    <3> QED BY <1>2, <2>1, <2>4, <3>1, GroupFlowAims
  <2>5. ASSUME NEW f \in Flows, NEW c \in Clients, NEW n \in Present,
               GrantDevice(b, f, c, n) \/ RevokeDevice(b, f, c, n)
        PROVE  History' /\ GroupsAhead'
    <3>1. \E calls : Starts(f, b, calls, {})
      BY <2>5 DEF GrantDevice, RevokeDevice
    <3> QED BY <1>2, <2>1, <2>5, <3>1, DeviceFlowAims
  <2>6. ASSUME NEW f \in Flows, NEW c \in Clients, NEW picked \in SUBSET Present, AddDevice(b, f, c, picked)
        PROVE  History' /\ GroupsAhead'
    <3>1. \E calls : Starts(f, b, calls, {})
      BY <2>6 DEF AddDevice
    <3> QED BY <1>2, <2>1, <2>6, <3>1, AddDeviceAims
  <2>7. ASSUME NEW f \in Flows, NEW S \in Edited(b), NEW n \in Present, NEW exit \in BOOLEAN,
               NEW R \in SUBSET Rules, SaveRules(b, f, S, n, exit, R)
        PROVE  History' /\ GroupsAhead'
    <3>1. \E calls, goal : Starts(f, b, calls, goal)
      BY <2>7 DEF SaveRules
    <3> QED BY <1>2, <2>1, <2>7, <3>1, SaveRulesAims
  <2> QED BY <1>10, <2>2, <2>3, <2>4, <2>5, <2>6, <2>7 DEF Operator, Redraws
<1> QED BY <1>4, <1>8, <1>9, <1>10 DEF Next

\* There is no group before the first page is opened.
LEMMA SettledInvInitially == Init => SettledInv
<1> SUFFICES ASSUME Init PROVE SettledInv
  OBVIOUS
<1>1. Shapes
  BY InitialShapes
<1>2. NoCompany /\ History
  BY DEF Init, NoCompany, History, Running, NoFlow
<1>3. Drawn
  <2>1. \A m \in Layout : Laid(m) => m = NoGroups
    BY DEF Init, Laid
  <2>2. \A l \in Lists : Told(l) => l = Listed
    BY DEF Init, Told
  <2>3. TrueList(Listed)
    BY ExistsListable DEF TrueList, Listed
  <2> QED BY <2>1, <2>2, <2>3, NoGroupsSound DEF Drawn, TrueList, Sound
<1>4. GroupsAhead
  <2>1. PICK L, C : L = InPlay /\ C = CallsLeft
    OBVIOUS
  <2>2. L \in SUBSET Layout /\ C \in SUBSET Call /\ \A m \in L : m = NoGroups
    BY <2>1 DEF InPlay, CallsLeft, Init
  <2>3. PICK F : F = [h \in Pairs |-> Now(h)]
    OBVIOUS
  <2>4. F \in [Pairs -> Value]
    BY <1>1, <2>3, NowHolds
  <2>5. Aims(L, C, F)
    BY <2>2 DEF Aims, NoGroups
  <2> QED BY <2>1, <2>2, <2>4, <2>5 DEF GroupsAhead
<1> QED BY <1>1, <1>2, <1>3, <1>4 DEF SettledInv

\* Nothing happens to the groups when nothing happens.
LEMMA SettledInvStutters == SettledInv /\ UNCHANGED vars => SettledInv'
<1> SUFFICES ASSUME SettledInv, UNCHANGED vars PROVE SettledInv'
  OBVIOUS
<1>1. Shapes' /\ NoCompany' /\ History'
  BY StutterKeeps DEF SettledInv, vars, NoCompany, History, Running
<1>2. UNCHANGED dbVars /\ UNCHANGED pageVars
  BY DEF vars
<1>3. Drawn'
  BY <1>2, SameDevices, DrawnAfter DEF SettledInv, pageVars, Laid, Told
<1>4. GroupsAhead'
  <2>1. Quiet /\ settled' = settled
    BY <1>2 DEF Quiet, vars
  <2>2. \A m \in Layout : m \in InPlay' => m \in InPlay
    BY <1>2 DEF InPlay, pageVars
  <2> QED BY <2>1, <2>2, QuietAims
<1> QED BY <1>1, <1>3, <1>4 DEF SettledInv

\* The groups of the map (joinGroup, the group's lines and RulesModal's save): as long as
\* every change was made on an up-to-date map and no call failed, the members of a group
\* have the same nodes, rules and exits whenever nothing is on its way.
THEOREM SettledGroupsShare == Spec => []SettledGroupsShareAccess
<1>1. Init => SettledInv
  BY SettledInvInitially
<1>2. SettledInv /\ Next => SettledInv'
  <2>1. SettledInv /\ Next => Shapes' /\ FlowStep
    BY StepKeeps DEF SettledInv
  <2>2. SettledInv /\ FlowStep => NoCompany'
    BY NoCompanyKept DEF SettledInv
  <2>3. SettledInv /\ Next => Drawn'
    BY DrawnKept DEF SettledInv
  <2> QED BY <2>1, <2>2, <2>3, SettledInvKept DEF SettledInv
<1>3. SettledInv /\ [Next]_vars => SettledInv'
  BY <1>2, SettledInvStutters
<1>4. SettledInv => SettledGroupsShareAccess
  BY AimsReached DEF SettledInv, SettledGroupsShareAccess
<1> QED BY <1>1, <1>3, <1>4, PTL DEF Spec
=============================================================================
