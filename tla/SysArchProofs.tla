---------------------------- MODULE SysArchProofs ---------------------------
(***************************************************************************)
(* The thread table is exact and implements a set of threads, for any      *)
(* number of tasks, any set of handles and any size of the table.          *)
(***************************************************************************)
EXTENDS SysArch, TLAPS

TypeOK ==
  /\ table \in [Slots -> Handles \cup {Null}]
  /\ next \in Nat
  /\ alive \subseteq Handles
  /\ orphans \subseteq alive
  /\ pc \in [Tasks -> Steps]
  /\ arg \in [Tasks -> Tasks \cup {Null}]
  /\ raced \in BOOLEAN

(* The entries are living threads, the other slots are clear, and no       *)
(* thread has two entries: TableIsExact slot by slot.                      *)
Entries ==
  /\ \A i \in Slots : i >= next => table[i] = Null
  /\ \A i \in Slots : table[i] # Null => table[i] \in alive
  /\ \A i, j \in Slots : table[i] = table[j] /\ table[i] # Null => i = j

Listed(h) == \E i \in Slots : table[i] = h

(* What a creator has created and not entered lives, has no entry, and is  *)
(* no other creator's.                                                     *)
Newcomer(t) == pc[t] = "enter" /\ arg[t] # Null
Newcomers ==
  /\ \A t \in Tasks : Newcomer(t) =>
       arg[t] \in alive /\ ~Listed(arg[t]) /\ arg[t] \notin orphans
  /\ \A t, u \in Tasks : Newcomer(t) /\ Newcomer(u) /\ arg[t] = arg[u] => t = u

(* An orphan has no entry, a thread that does not live makes no call, and  *)
(* what is to be deleted has a handle.                                     *)
Others ==
  /\ \A h \in orphans : ~Listed(h)
  /\ \A t \in Tasks : pc[t] = "delete" => arg[t] # Null
  /\ \A h \in Handles \ alive : pc[h] = "idle"

(* Every living thread is in one of the three places.                      *)
Known ==
  next =< Max => \A h \in alive :
    Listed(h) \/ h \in orphans \/ \E t \in Tasks : pc[t] = "enter" /\ arg[t] = h

(* Without a race there is one creator at most, and it has its slot.       *)
OneCreator ==
  ~raced =>
    /\ next =< Max
    /\ \A t \in Creators : next < Max
    /\ \A t, u \in Creators : t = u

IInv == TypeOK /\ Entries /\ Newcomers /\ Others /\ Known /\ OneCreator

-----------------------------------------------------------------------------
(* Slot by slot and set by set the entries are the same.                   *)
LEMMA RegisteredIsListed ==
  ASSUME TypeOK, Entries
  PROVE  \A h : h \in Registered <=> h # Null /\ Listed(h)
<1> USE DEF TypeOK, Entries, Registered, Used, Listed, Slots
<1>1. ASSUME NEW h, h \in Registered PROVE h # Null /\ Listed(h)
  BY <1>1
<1>2. ASSUME NEW h, h # Null, Listed(h) PROVE h \in Registered
  <2>1. PICK i \in Slots : table[i] = h
    BY <1>2
  <2>2. i < next
    BY <1>2, <2>1
  <2> QED BY <1>2, <2>1, <2>2
<1> QED BY <1>1, <1>2

LEMMA InitIInv == Init => IInv
<1> SUFFICES ASSUME Init PROVE IInv
  OBVIOUS
<1> USE MaxAssumption DEF Init
<1>1. TypeOK
  BY DEF TypeOK, Steps
<1>2. Entries /\ Others /\ Newcomers
  BY DEF Entries, Others, Newcomers, Newcomer, Listed, Tasks
<1>3. Known /\ OneCreator
  BY DEF Known, OneCreator, Creators
<1> QED BY <1>1, <1>2, <1>3 DEF IInv

LEMMA AskStep == ASSUME IInv, NEW t \in Tasks, Ask(t) PROVE IInv'
<1> USE DEF IInv, Ask, Runs
<1>1. TypeOK'
  BY DEF TypeOK, Steps
<1>2. Entries' /\ UNCHANGED <<table, next, alive, arg, orphans>>
  BY DEF Entries
<1>3. \A u \in Tasks : pc'[u] = "enter" <=> pc[u] = "enter"
  BY DEF TypeOK
<1>4. Newcomers'
  BY <1>2, <1>3 DEF Newcomers, Newcomer, Listed
<1>5. Others'
  <2>1. t \in Apps \cup alive
    OBVIOUS
  <2> QED BY <1>2, <2>1, HandlesAssumption DEF Others, Listed, TypeOK, Tasks
<1>6. Known'
  BY <1>2, <1>3 DEF Known, Listed
<1>7. OneCreator'
  <2> SUFFICES ASSUME ~raced' PROVE OneCreator'
    BY DEF OneCreator
  <2>1. Creators = {} /\ ~raced
    OBVIOUS
  <2>2. Creators' \subseteq {t}
    BY <2>1 DEF Creators, TypeOK
  <2> QED BY <2>1, <2>2 DEF OneCreator, TypeOK
<1> QED BY <1>1, <1>2, <1>4, <1>5, <1>6, <1>7

LEMMA AskDeleteStep ==
  ASSUME IInv, NEW t \in Tasks, NEW h \in Handles \cup {t}, AskDelete(t, h)
  PROVE  IInv'
<1> USE DEF IInv, AskDelete, Runs
<1>1. TypeOK'
  BY DEF TypeOK, Steps, Tasks
<1>2. Entries' /\ UNCHANGED <<table, next, alive, raced, orphans>>
  BY DEF Entries
<1>3. \A u \in Tasks : /\ pc'[u] = "enter" <=> pc[u] = "enter"
                       /\ pc[u] = "enter" => arg'[u] = arg[u]
  BY DEF TypeOK
<1>4. Newcomers'
  BY <1>2, <1>3 DEF Newcomers, Newcomer, Listed
<1>5. Others'
  <2>1. t \in Apps \cup alive
    OBVIOUS
  <2> QED BY <1>2, <2>1, HandlesAssumption DEF Others, Listed, TypeOK, Tasks
<1>6. Known'
  BY <1>2, <1>3 DEF Known, Listed
<1>7. OneCreator'
  <2>1. Creators' \subseteq Creators
    BY DEF Creators, TypeOK
  <2> QED BY <1>2, <2>1 DEF OneCreator
<1> QED BY <1>1, <1>2, <1>4, <1>5, <1>6, <1>7

LEMMA CreateStep == ASSUME IInv, NEW t \in Tasks, Create(t) PROVE IInv'
<1> USE DEF IInv
<1>1. PICK h \in (Handles \ alive) \cup {Null} :
        /\ arg' = [arg EXCEPT ![t] = h]
        /\ alive' = alive \cup ({h} \ {Null})
  BY DEF Create
<1>2. /\ pc[t] = "create" /\ pc' = [pc EXCEPT ![t] = "enter"]
      /\ UNCHANGED <<table, next, raced, orphans>>
      /\ t \in Apps \cup alive
  BY DEF Create, Runs
<1>3. TypeOK'
  BY <1>1, <1>2 DEF TypeOK, Steps, Tasks
<1>4. /\ \A u \in Tasks : u # t => pc'[u] = pc[u] /\ arg'[u] = arg[u]
      /\ pc'[t] = "enter" /\ arg'[t] = h
  BY <1>1, <1>2 DEF TypeOK
<1>5. Entries'
  BY <1>1, <1>2 DEF Entries
<1>6. h # Null => ~Listed(h) /\ h \notin orphans /\ h \notin alive
  BY <1>1 DEF Entries, Listed, TypeOK
<1>7. Newcomers'
  <2>1. ASSUME NEW u \in Tasks, Newcomer(u)'
        PROVE /\ arg'[u] \in alive' /\ arg'[u] \notin orphans'
              /\ \A i \in Slots : table'[i] # arg'[u]
              /\ u # t => Newcomer(u) /\ arg'[u] = arg[u] /\ arg[u] \in alive
    <3>1. CASE u = t
      <4>1. arg'[u] = h /\ h # Null
        BY <1>4, <2>1, <3>1 DEF Newcomer
      <4> QED BY <1>1, <1>2, <1>6, <3>1, <4>1 DEF Listed
    <3>2. CASE u # t
      <4>1. Newcomer(u) /\ arg'[u] = arg[u]
        BY <1>4, <2>1, <3>2 DEF Newcomer
      <4>2. arg[u] \in alive /\ arg[u] \notin orphans /\ ~Listed(arg[u])
        BY <4>1 DEF Newcomers
      <4> QED BY <1>1, <1>2, <3>2, <4>1, <4>2 DEF Listed
    <3> QED BY <3>1, <3>2
  <2>2. ASSUME NEW u \in Tasks, NEW v \in Tasks, Newcomer(u)', Newcomer(v)',
               arg'[u] = arg'[v]
        PROVE u = v
    <3>1. CASE u # t /\ v # t
      BY <1>4, <2>1, <2>2, <3>1 DEF Newcomers
    <3>2. CASE u = t /\ v # t
      BY <1>4, <1>6, <2>1, <2>2, <3>2 DEF Newcomer
    <3>3. CASE u # t /\ v = t
      BY <1>4, <1>6, <2>1, <2>2, <3>3 DEF Newcomer
    <3> QED BY <3>1, <3>2, <3>3
  <2> QED BY <2>1, <2>2 DEF Newcomers, Listed
<1>8. Others'
  BY <1>1, <1>2, <1>4, HandlesAssumption DEF Others, Listed, TypeOK, Tasks
<1>9. Known'
  BY <1>1, <1>2, <1>4 DEF Known, Listed
<1>10. OneCreator'
  <2>1. Creators' = Creators
    BY <1>2, <1>4 DEF Creators
  <2> QED BY <1>2, <2>1 DEF OneCreator
<1> QED BY <1>3, <1>5, <1>7, <1>8, <1>9, <1>10

LEMMA EnterStep == ASSUME IInv, NEW t \in Tasks, Enter(t) PROVE IInv'
<1> USE DEF IInv
<1>1. /\ pc[t] = "enter" /\ pc' = [pc EXCEPT ![t] = "idle"]
      /\ arg' = [arg EXCEPT ![t] = Null]
      /\ next =< Max /\ next' = next + 1
      /\ table' = [i \in Slots |-> IF i = next THEN arg[t] ELSE table[i]]
      /\ UNCHANGED <<alive, raced, orphans>>
      /\ t \in Apps \cup alive
  BY DEF Enter, Runs
<1>2. arg[t] # Null =>
        arg[t] \in alive /\ ~Listed(arg[t]) /\ arg[t] \notin orphans
  BY <1>1 DEF Newcomers, Newcomer
<1>3. TypeOK'
  <2>1. table' \in [Slots -> Handles \cup {Null}]
    BY <1>1, <1>2 DEF TypeOK
  <2>2. next' \in Nat
    BY <1>1 DEF TypeOK
  <2> QED BY <1>1, <2>1, <2>2 DEF TypeOK, Steps
<1>4. /\ \A u \in Tasks : u # t => pc'[u] = pc[u] /\ arg'[u] = arg[u]
      /\ pc'[t] = "idle"
  BY <1>1 DEF TypeOK
<1>5. \A i \in Slots : table'[i] = IF i = next THEN arg[t] ELSE table[i]
  BY <1>1
<1>6. Entries'
  <2>1. \A i \in Slots : i >= next' => table'[i] = Null
    BY <1>1, <1>5 DEF Entries, Slots, TypeOK
  <2>2. \A i \in Slots : table'[i] # Null => table'[i] \in alive'
    BY <1>1, <1>2, <1>5 DEF Entries
  <2>3. \A i, j \in Slots : table'[i] = table'[j] /\ table'[i] # Null => i = j
    BY <1>2, <1>5 DEF Entries, Listed
  <2> QED BY <2>1, <2>2, <2>3 DEF Entries
<1>7. \A h : h # Null /\ Listed(h)' => Listed(h) \/ h = arg[t]
  BY <1>5 DEF Listed
<1>8. Newcomers'
  <2>1. \A u \in Tasks : Newcomer(u)' =>
          u # t /\ Newcomer(u) /\ arg'[u] = arg[u]
    BY <1>4 DEF Newcomer
  <2>2. \A u \in Tasks : Newcomer(u)' => arg[u] # arg[t]
    BY <1>1, <2>1 DEF Newcomers, Newcomer
  <2>3. ASSUME NEW u \in Tasks, Newcomer(u)'
        PROVE  /\ arg'[u] \in alive' /\ arg'[u] \notin orphans'
               /\ \A i \in Slots : table'[i] # arg'[u]
    <3>1. Newcomer(u) /\ arg'[u] = arg[u] /\ arg[u] # arg[t]
      BY <2>1, <2>2, <2>3
    <3>2. arg[u] \in alive /\ arg[u] \notin orphans /\ ~Listed(arg[u])
      BY <3>1 DEF Newcomers
    <3> QED BY <1>1, <1>5, <3>1, <3>2 DEF Listed
  <2>4. \A u, v \in Tasks : Newcomer(u)' /\ Newcomer(v)' /\ arg'[u] = arg'[v] => u = v
    BY <2>1 DEF Newcomers
  <2> QED BY <2>3, <2>4 DEF Newcomers, Listed
<1>9. Others'
  <2>1. \A h \in orphans' : ~Listed(h)'
    BY <1>1, <1>2, <1>7, HandlesAssumption DEF Others, TypeOK
  <2>2. \A h \in Handles \ alive' : pc'[h] = "idle"
    BY <1>1, <1>4, HandlesAssumption DEF Others, Tasks
  <2>3. \A u \in Tasks : pc'[u] = "delete" => arg'[u] # Null
    BY <1>4 DEF Others
  <2> QED BY <2>1, <2>2, <2>3 DEF Others
<1>10. Known'
  <2> SUFFICES ASSUME next' =< Max, NEW h \in alive
               PROVE  Listed(h)' \/ h \in orphans
                        \/ \E u \in Tasks : pc'[u] = "enter" /\ arg'[u] = h
    BY <1>1 DEF Known
  <2>1. next \in Slots
    BY <1>1, MaxAssumption DEF Slots, TypeOK
  <2>2. \E i \in Slots : table'[i] = arg[t]
    BY <1>5, <2>1
  <2>3. Listed(h) => Listed(h)'
    <3>1. table[next] = Null /\ h # Null
      BY <2>1, HandlesAssumption DEF Entries, TypeOK, Slots
    <3> QED BY <1>5, <3>1 DEF Listed
  <2>4. Listed(h) \/ h \in orphans \/ \E u \in Tasks : pc[u] = "enter" /\ arg[u] = h
    BY <1>1 DEF Known
  <2>5. CASE h = arg[t]
    BY <2>2, <2>5 DEF Listed
  <2>6. CASE h # arg[t]
    BY <1>4, <2>3, <2>4, <2>6
  <2> QED BY <2>5, <2>6
<1>11. OneCreator'
  <2>1. Creators' \subseteq Creators /\ t \in Creators /\ t \notin Creators'
    BY <1>1, <1>4 DEF Creators
  <2> SUFFICES ASSUME ~raced PROVE next' =< Max /\ Creators' = {}
    BY <1>1 DEF OneCreator
  <2>2. next < Max
    BY <2>1 DEF OneCreator
  <2>3. Creators' = {}
    BY <2>1 DEF OneCreator
  <2> QED BY <1>1, <2>2, <2>3, MaxAssumption DEF TypeOK
<1> QED BY <1>3, <1>6, <1>8, <1>9, <1>10, <1>11

LEMMA DeleteFoundStep ==
  ASSUME IInv, NEW t \in Tasks, Runs(t), pc[t] = "delete",
         NEW d \in Used, table[d] = arg[t], table' = Without(d),
         next' = next - 1, Destroy(arg[t], t), UNCHANGED raced
  PROVE  IInv'
<1> USE DEF IInv
<1> DEFINE h == arg[t]
<1>1. h \in Handles /\ h \in alive /\ h \in Tasks /\ Listed(h) /\ h # Null
  BY DEF Others, Entries, TypeOK, Used, Listed, Tasks
<1>2. /\ next \in Nat /\ d \in Slots /\ d < next /\ next - 1 \in Nat
      /\ next =< Max /\ next - 1 \in Slots
  BY MaxAssumption DEF TypeOK, Used, Runs, Slots
<1>3. /\ alive' = alive \ {h} /\ UNCHANGED raced
      /\ pc' = [pc EXCEPT ![h] = "idle", ![t] = "idle"]
      /\ arg' = [arg EXCEPT ![h] = Null, ![t] = Null]
      /\ pc[h] # "enter" => orphans' = orphans
      /\ pc[h] = "enter" => orphans' = orphans \cup ({arg[h]} \ {Null})
  BY DEF Destroy
<1>4. \A u \in Tasks : IF u \in {h, t} THEN pc'[u] = "idle" /\ arg'[u] = Null
                       ELSE pc'[u] = pc[u] /\ arg'[u] = arg[u]
  BY <1>1, <1>3 DEF TypeOK
<1>5. \A i \in Slots : table'[i] = IF i = next - 1 THEN Null
                                   ELSE IF i = d THEN table[next - 1] ELSE table[i]
  BY DEF Without
<1> HIDE DEF h
<1>6. \A i \in Slots : table'[i] # Null =>
        /\ i < next - 1 /\ table'[i] \in alive /\ table'[i] # h
        /\ \E j \in Slots : table[j] = table'[i]
  <2>1. ASSUME NEW i \in Slots, table'[i] # Null
        PROVE  /\ i < next - 1 /\ i # next - 1
               /\ table'[i] = IF i = d THEN table[next - 1] ELSE table[i]
    BY <1>2, <1>5, <2>1 DEF Entries, Slots
  <2>2. table[d] = h
    BY DEF h
  <2> QED BY <1>1, <1>2, <2>1, <2>2 DEF Entries
<1>7. \A k : k # Null /\ k # h /\ Listed(k) => \E i \in Slots : table'[i] = k
  <2> SUFFICES ASSUME NEW k, k # h, NEW j \in Slots, table[j] = k, k # Null
               PROVE  \E i \in Slots : table'[i] = k
    BY DEF Listed
  <2>1. table[d] = h
    BY DEF h
  <2>2. CASE j = next - 1
    BY <1>2, <1>5, <2>1, <2>2
  <2>3. CASE j # next - 1
    BY <1>2, <1>5, <2>1, <2>3
  <2> QED BY <2>2, <2>3
<1>8. h \notin orphans /\ (Newcomer(h) => arg[h] # h)
  BY <1>1 DEF Others, Newcomers
<1>9. TypeOK'
  <2>1. table' \in [Slots -> Handles \cup {Null}]
    BY <1>2 DEF TypeOK, Without
  <2>2. orphans' \subseteq alive'
    <3>1. CASE pc[h] = "enter" /\ arg[h] # Null
      BY <1>1, <1>3, <1>8, <3>1 DEF Newcomers, Newcomer, TypeOK
    <3>2. CASE ~(pc[h] = "enter" /\ arg[h] # Null)
      BY <1>3, <1>8, <3>2 DEF TypeOK
    <3> QED BY <3>1, <3>2
  <2>3. pc' \in [Tasks -> Steps] /\ arg' \in [Tasks -> Tasks \cup {Null}]
    BY <1>3 DEF TypeOK, Steps
  <2> QED BY <1>2, <1>3, <2>1, <2>2, <2>3 DEF TypeOK
<1>10. Entries'
  <2>1. \A i \in Slots : i >= next' => table'[i] = Null
    BY <1>2, <1>6 DEF Slots
  <2>2. \A i \in Slots : table'[i] # Null => table'[i] \in alive'
    BY <1>3, <1>6
  <2>3. \A i, j \in Slots : table'[i] = table'[j] /\ table'[i] # Null => i = j
    <3>1. \A i \in Slots : table'[i] # Null =>
            /\ i # next - 1
            /\ table'[i] = IF i = d THEN table[next - 1] ELSE table[i]
      BY <1>5, <1>2
    <3> QED BY <1>2, <3>1 DEF Entries
  <2> QED BY <2>1, <2>2, <2>3 DEF Entries
<1>11. Newcomers'
  <2>1. \A u \in Tasks : Newcomer(u)' =>
          u # h /\ u # t /\ Newcomer(u) /\ arg'[u] = arg[u]
    BY <1>4 DEF Newcomer
  <2>2. ASSUME NEW u \in Tasks, Newcomer(u)'
        PROVE  /\ arg'[u] \in alive' /\ arg'[u] \notin orphans'
               /\ \A i \in Slots : table'[i] # arg'[u]
    <3>1. Newcomer(u) /\ arg'[u] = arg[u] /\ u # h
      BY <2>1, <2>2
    <3>2. arg[u] \in alive /\ arg[u] \notin orphans /\ ~Listed(arg[u])
      BY <3>1 DEF Newcomers
    <3>3. arg[u] \in alive'
      BY <1>1, <1>3, <3>2
    <3>4. arg[u] \notin orphans'
      <4>1. Newcomer(h) => arg[u] # arg[h]
        BY <1>1, <3>1 DEF Newcomers
      <4> QED BY <1>3, <3>2, <4>1 DEF Newcomer
    <3>5. \A i \in Slots : table'[i] # arg[u]
      BY <1>6, <3>1, <3>2 DEF Listed, Newcomer
    <3> QED BY <3>1, <3>3, <3>4, <3>5
  <2>3. \A u, v \in Tasks : Newcomer(u)' /\ Newcomer(v)' /\ arg'[u] = arg'[v] => u = v
    BY <2>1 DEF Newcomers
  <2> QED BY <2>2, <2>3 DEF Newcomers, Listed
<1>12. Others'
  <2>1. ASSUME NEW k \in orphans' PROVE \A i \in Slots : table'[i] # k
    <3>1. k # Null /\ ~Listed(k)
      <4>1. CASE k \in orphans
        BY <4>1, HandlesAssumption DEF Others, TypeOK
      <4>2. CASE k \notin orphans
        <5>1. pc[h] = "enter" /\ k = arg[h] /\ k # Null
          BY <1>3, <2>1, <4>2
        <5> QED BY <1>1, <5>1 DEF Newcomers, Newcomer
      <4> QED BY <4>1, <4>2
    <3> QED BY <1>6, <3>1 DEF Listed
  <2>2. \A u \in Tasks : pc'[u] = "delete" => arg'[u] # Null
    BY <1>4 DEF Others
  <2>3. \A k \in Handles \ alive' : pc'[k] = "idle"
    BY <1>3, <1>4 DEF Others, Tasks
  <2> QED BY <2>1, <2>2, <2>3 DEF Others, Listed
<1>13. Known'
  <2> SUFFICES ASSUME NEW k \in alive'
               PROVE  \/ \E i \in Slots : table'[i] = k
                      \/ k \in orphans'
                      \/ \E u \in Tasks : pc'[u] = "enter" /\ arg'[u] = k
    BY DEF Known, Listed
  <2>1. k \in alive /\ k # h /\ k # Null
    BY <1>3, HandlesAssumption DEF TypeOK
  <2>2. CASE Listed(k)
    BY <1>7, <2>1, <2>2
  <2>3. CASE k \in orphans
    BY <1>3, <2>3
  <2>4. ASSUME NEW u \in Tasks, pc[u] = "enter", arg[u] = k
        PROVE  k \in orphans' \/ (pc'[u] = "enter" /\ arg'[u] = k)
    <3>1. u # t
      BY <2>4
    <3>2. CASE u = h
      BY <1>3, <2>1, <2>4, <3>2
    <3>3. CASE u # h
      BY <1>4, <2>4, <3>1, <3>3
    <3> QED BY <3>2, <3>3
  <2> QED BY <1>2, <2>1, <2>2, <2>3, <2>4 DEF Known
<1>14. OneCreator'
  <2>1. Creators' \subseteq Creators
    BY <1>4 DEF Creators
  <2> QED BY <1>2, <1>3, <2>1, MaxAssumption DEF OneCreator
<1> QED BY <1>9, <1>10, <1>11, <1>12, <1>13, <1>14

LEMMA DeleteStep == ASSUME IInv, NEW t \in Tasks, Delete(t) PROVE IInv'
<1> USE DEF IInv
<1>1. Runs(t) /\ pc[t] = "delete" /\ UNCHANGED raced
  BY DEF Delete
<1>2. ASSUME NEW d \in Used, table[d] = arg[t], table' = Without(d),
             next' = next - 1, Destroy(arg[t], t)
      PROVE  IInv'
  BY <1>1, <1>2, DeleteFoundStep
<1>3. ASSUME pc' = [pc EXCEPT ![t] = "idle"], arg' = [arg EXCEPT ![t] = Null],
             UNCHANGED <<table, next, alive, orphans>>
      PROVE  IInv'
  <2>1. TypeOK'
    BY <1>1, <1>3 DEF TypeOK, Steps
  <2>2. \A u \in Tasks : /\ pc'[u] = IF u = t THEN "idle" ELSE pc[u]
                         /\ u # t => arg'[u] = arg[u]
    BY <1>3 DEF TypeOK
  <2>3. Entries'
    BY <1>3 DEF Entries
  <2>4. \A u \in Tasks : /\ pc'[u] = "enter" <=> pc[u] = "enter"
                         /\ pc[u] = "enter" => arg'[u] = arg[u]
    BY <1>1, <2>2
  <2>5. Newcomers'
    BY <1>3, <2>4 DEF Newcomers, Newcomer, Listed
  <2>6. Others'
    BY <1>3, <2>2 DEF Others, Listed, Tasks
  <2>7. Known'
    BY <1>3, <2>4 DEF Known, Listed
  <2>8. OneCreator'
    <3>1. Creators' \subseteq Creators
      BY <2>2 DEF Creators
    <3> QED BY <1>1, <1>3, <3>1 DEF OneCreator
  <2> QED BY <2>1, <2>3, <2>5, <2>6, <2>7, <2>8
<1> QED BY <1>2, <1>3 DEF Delete

LEMMA StutterStep == ASSUME IInv, UNCHANGED vars PROVE IInv'
<1> USE DEF IInv, vars
<1>1. TypeOK' /\ Entries'
  BY DEF TypeOK, Entries
<1>2. Newcomers' /\ Others'
  BY DEF Newcomers, Newcomer, Others, Listed
<1>3. Known' /\ OneCreator'
  BY DEF Known, OneCreator, Creators, Listed
<1> QED BY <1>1, <1>2, <1>3

LEMMA StepIInv == IInv /\ [Next]_vars => IInv'
<1> SUFFICES ASSUME IInv, [Next]_vars PROVE IInv'
  OBVIOUS
<1>1. ASSUME NEW t \in Tasks,
             Ask(t) \/ Create(t) \/ Enter(t) \/ Delete(t)
      PROVE  IInv'
  BY <1>1, AskStep, CreateStep, EnterStep, DeleteStep
<1>2. ASSUME NEW t \in Tasks, NEW h \in Handles \cup {t}, AskDelete(t, h)
      PROVE  IInv'
  BY <1>2, AskDeleteStep
<1>3. CASE UNCHANGED vars
  BY <1>3, StutterStep
<1> QED BY <1>1, <1>2, <1>3 DEF Next

LEMMA InvariantOfSpec == Spec => []IInv
  BY InitIInv, StepIInv, PTL DEF Spec

-----------------------------------------------------------------------------
LEMMA IInvImpliesExact == IInv => TableIsExact
<1> SUFFICES ASSUME IInv PROVE TableIsExact
  OBVIOUS
<1>1. TypeOK /\ Entries
  BY DEF IInv
<1>2. Registered \subseteq alive
  BY <1>1, RegisteredIsListed DEF Entries, Listed
<1> QED BY <1>1, <1>2 DEF TableIsExact, Entries, Used

LEMMA IInvImpliesKnown == IInv => OnlyNewcomersAreUnknown
<1> DEFINE entering == {arg[t] : t \in {u \in Tasks : pc[u] = "enter"}} \ {Null}
<1> SUFFICES ASSUME IInv, next =< Max
             PROVE  alive = Registered \cup orphans \cup entering
  BY DEF OnlyNewcomersAreUnknown
<1>1. TypeOK /\ Entries /\ Newcomers /\ Known
  BY DEF IInv
<1>2. \A h : h \in Registered <=> h # Null /\ Listed(h)
  BY <1>1, RegisteredIsListed
<1>3. ASSUME NEW h \in alive PROVE h \in Registered \cup orphans \cup entering
  <2>1. h # Null
    BY <1>1, HandlesAssumption DEF TypeOK
  <2> QED BY <1>1, <1>2, <2>1 DEF Known
<1>4. Registered \subseteq alive /\ orphans \subseteq alive
  BY <1>1, <1>2 DEF Entries, Listed, TypeOK
<1>5. entering \subseteq alive
  BY <1>1 DEF Newcomers, Newcomer
<1> QED BY <1>3, <1>4, <1>5

(* The thread table never lists a thread twice, nor one that is gone, in   *)
(* whatever order calls of sys_thread_new and sys_thread_delete interleave *)
(* (sys_arch.c:359, 451-456).                                              *)
THEOREM TableStaysExact == Spec => []TableIsExact
  BY InvariantOfSpec, IInvImpliesExact, PTL

(* sys_thread_delete fails to find a living thread only between its        *)
(* creation and its entry, or when its creator was deleted in between      *)
(* (sys_arch.c:354-359).                                                   *)
THEOREM OnlyNewcomersStayUnknown == Spec => []OnlyNewcomersAreUnknown
  BY InvariantOfSpec, IInvImpliesKnown, PTL

(* The table overflows only after two tasks created threads at the same    *)
(* time (sys_arch.c:352).                                                  *)
THEOREM OverflowIsRaced == Spec => []OverflowNeedsARace
<1>1. IInv => OverflowNeedsARace
  BY MaxAssumption DEF IInv, TypeOK, OneCreator, OverflowNeedsARace
<1> QED BY <1>1, InvariantOfSpec, PTL

-----------------------------------------------------------------------------
LEMMA InitRefines == Init => Registry!Init
<1> SUFFICES ASSUME Init PROVE Registry!Init
  OBVIOUS
<1>1. Registered = {}
  BY DEF Init, Registered, Used
<1>2. Max - next = Max
  BY MaxAssumption DEF Init
<1> QED BY <1>1, <1>2 DEF Registry!Init

(* Who is registered after the entry of what t created.                    *)
LEMMA EnterRefines ==
  ASSUME IInv, IInv', NEW t \in Tasks, Enter(t), next' =< Max
  PROVE  Registry!Next
<1>1. /\ next \in Slots /\ next' = next + 1 /\ next < Max /\ next \in Nat
      /\ \A i \in Slots : table'[i] = IF i = next THEN arg[t] ELSE table[i]
  BY MaxAssumption DEF IInv, TypeOK, Enter, Slots
<1>2. table[next] = Null
  BY <1>1 DEF IInv, Entries
<1>3. \A h : h \in Registered <=> h # Null /\ Listed(h)
  BY RegisteredIsListed DEF IInv
<1>4. \A h : h \in Registered' <=> h # Null /\ \E i \in Slots : table'[i] = h
  <2>1. (\A h : h \in Registered <=> h # Null /\ Listed(h))'
    BY RegisteredIsListed, PTL DEF IInv
  <2> QED BY <2>1 DEF Listed
<1>5. Registered' = Registered \cup ({arg[t]} \ {Null})
  BY <1>1, <1>2, <1>3, <1>4 DEF Listed
<1>6. Max - next # 0 /\ Max - next' = (Max - next) - 1
  BY <1>1, MaxAssumption
<1>7. CASE arg[t] = Null
  BY <1>5, <1>6, <1>7 DEF Registry!Next, Registry!LoseRoom
<1>8. CASE arg[t] # Null
  <2>1. arg[t] \in alive /\ ~Listed(arg[t])
    BY <1>8 DEF IInv, Newcomers, Newcomer, Enter
  <2>2. arg[t] \in Handles /\ arg[t] \notin Registered
    BY <1>3, <2>1 DEF IInv, TypeOK
  <2> QED BY <1>5, <1>6, <1>8, <2>2 DEF Registry!Next, Registry!Register
<1> QED BY <1>7, <1>8

(* A deletion that finds its thread forgets that thread and no other.      *)
LEMMA DeleteRefines ==
  ASSUME IInv, IInv', NEW t \in Tasks, NEW d \in Used, table[d] = arg[t],
         Runs(t), pc[t] = "delete", table' = Without(d), next' = next - 1
  PROVE  Registry!Next
<1>1. /\ next \in Nat /\ next =< Max /\ next - 1 \in Nat /\ d \in Slots /\ d < next
      /\ \A i \in Slots : table'[i] = IF i = next - 1 THEN Null
                                      ELSE IF i = d THEN table[next - 1] ELSE table[i]
  BY DEF IInv, TypeOK, Used, Without, Slots, Runs
<1>2. arg[t] # Null /\ Listed(arg[t]) /\ arg[t] \in Handles
  BY <1>1 DEF IInv, Others, Entries, TypeOK, Listed
<1>3. \A h : h \in Registered <=> h # Null /\ Listed(h)
  BY RegisteredIsListed DEF IInv
<1>4. \A h : h \in Registered' <=> h # Null /\ \E i \in Slots : table'[i] = h
  <2>1. (\A h : h \in Registered <=> h # Null /\ Listed(h))'
    BY RegisteredIsListed, PTL DEF IInv
  <2> QED BY <2>1 DEF Listed
<1>5. ASSUME NEW h, h \in Registered, h # arg[t] PROVE h \in Registered'
  <2>1. PICK j \in Slots : table[j] = h /\ h # Null /\ j # d
    BY <1>3, <1>5 DEF Listed
  <2>2. CASE j = next - 1
    BY <1>1, <1>4, <2>1, <2>2
  <2>3. CASE j # next - 1
    BY <1>1, <1>4, <2>1, <2>3
  <2> QED BY <2>2, <2>3
<1>6. ASSUME NEW h, h \in Registered' PROVE h \in Registered /\ h # arg[t]
  <2>1. PICK i \in Slots : table'[i] = h /\ h # Null /\ i # next - 1
    BY <1>1, <1>4, <1>6
  <2>2. i < next - 1
    BY <1>1, <2>1 DEF IInv, Entries, Slots
  <2>3. h = IF i = d THEN table[next - 1] ELSE table[i]
    BY <1>1, <2>1
  <2>4. next - 1 \in Slots
    BY <1>1, MaxAssumption DEF Slots
  <2> QED BY <1>1, <1>3, <2>1, <2>2, <2>3, <2>4 DEF IInv, Entries, Listed
<1>7. Registered' = Registered \ {arg[t]} /\ arg[t] \in Registered
  BY <1>2, <1>3, <1>5, <1>6
<1>8. Max - next' = (Max - next) + 1
  BY <1>1, MaxAssumption
<1> QED BY <1>2, <1>7, <1>8 DEF Registry!Next, Registry!Unregister

LEMMA StepRefines ==
  ASSUME IInv, IInv', [Next]_vars, next' =< Max
  PROVE  Registry!Next \/ UNCHANGED <<Registered, next>>
<1>1. CASE UNCHANGED <<table, next>>
  BY <1>1 DEF Registered, Used
<1>2. ASSUME NEW t \in Tasks, Enter(t) PROVE Registry!Next
  BY <1>2, EnterRefines
<1>3. ASSUME NEW t \in Tasks, Delete(t), ~UNCHANGED <<table, next>>
      PROVE  Registry!Next
  BY <1>3, DeleteRefines DEF Delete
<1>4. ASSUME NEW t \in Tasks, Ask(t) \/ Create(t) PROVE UNCHANGED <<table, next>>
  BY <1>4 DEF Ask, Create
<1>5. ASSUME NEW t \in Tasks, NEW h \in Handles \cup {t}, AskDelete(t, h)
      PROVE  UNCHANGED <<table, next>>
  BY <1>5 DEF AskDelete
<1> QED BY <1>1, <1>2, <1>3, <1>4, <1>5 DEF Next, vars

(* Up to an overflow the table is a set of threads with room for Max: each *)
(* step of the calls is one of the registry's, or changes nothing there.   *)
THEOREM TableImplementsRegistry == Spec => ImplementsRegistry
<1>1. Spec => Registry!Init
  BY InitRefines DEF Spec
<1>2. IInv /\ IInv' /\ [Next]_vars => [RegistryNext]_<<Registered, next>>
  BY StepRefines DEF RegistryNext
<1> QED BY <1>1, <1>2, InvariantOfSpec, PTL DEF Spec, ImplementsRegistry
=============================================================================
