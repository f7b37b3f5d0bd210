---------------------------- MODULE AtCmdProofs ----------------------------
(***************************************************************************)
(* The order of the commands run, the last line of a host that hurries,    *)
(* what the list of commands holds, and the life of the semaphore, for any *)
(* number of lines and any tables of commands.                             *)
(***************************************************************************)
EXTENDS AtCmd, WellFoundedInduction, TLAPS

InitSteps == {"sema", "arm", "list", "base", "test", "thread", "done"}
TaskSteps == {"none", "wait", "head", "tail", "run", "exit", "base", "test",
              "unreg", "free", "gone", "stuck", "failed"}

(* The types, but for the list's, which come with Listed.                  *)
HalfLines == [head : Nat, tail : Nat]
Types ==
  /\ rxbuf \in HalfLines /\ copy \in HalfLines
  /\ announced \in Nat
  /\ sema \in [is : {"none", "live", "freed"}, count : Nat]
  /\ init \in InitSteps /\ pc \in TaskSteps
  /\ executed \in Seq(HalfLines)
  /\ deinit \in {"no", "give", "done"}

Ending == {"base", "test", "unreg", "free", "gone"}

(* When the semaphore is there, the interrupt armed and exit set.          *)
Life ==
  /\ (init = "done") <=> (pc # "none")
  /\ armed <=> (init \notin {"sema", "arm"} /\ pc \notin {"free", "gone"})
  /\ (sema.is = "live") <=> (init # "sema" /\ pc # "gone")
  /\ init = "sema" => sema.count = 0
  /\ exit <=> (deinit # "no")
  /\ pc \in Ending => exit
  /\ exit => init = "done"

(* A deinit that met an idle task still meets one when it gives.           *)
Giving ==
  /\ deinit = "no" => ~crowded
  /\ ~crowded /\ deinit = "give" => pc = "wait" /\ sema.count = 0
  /\ GivesWhatIsThere

(* The wake-up of at_hdl_deinit, and the line being copied.                *)
Extra == IF deinit = "done" THEN 1 ELSE 0
Taking == IF pc \in {"head", "tail"} THEN 1 ELSE 0

AllWhole == \A i \in DOMAIN executed : executed[i] = Whole(i)

(* While the task has not yet copied the last wake-up's line: every line   *)
(* has been run or is one wake-up to come, and at most one is, which the   *)
(* next one waits for.                                                     *)
Serving ==
  pc \in {"none", "failed", "wait", "head", "tail"} =>
     /\ AllWhole
     /\ Len(executed) + Taking + sema.count = announced + Extra
     /\ Taking + sema.count >= Extra
     /\ Taking + sema.count <= 1 + Extra
     /\ arriving => Taking + sema.count = Extra

(* The same when it has, unless it is about to end.                        *)
Running ==
  pc \in {"run", "exit", "stuck"} /\ deinit # "done" =>
     /\ AllWhole
     /\ pc = "run" => Len(executed) + 1 + sema.count = announced
     /\ pc # "run" => Len(executed) + sema.count = announced
     /\ sema.count <= 1
     /\ arriving => sema.count = 0
     /\ pc = "run" => copy = Whole(Len(executed) + 1)

Copied ==
  /\ pc = "tail" => copy.head = rxbuf.head
  /\ pc = "run" => /\ AllWhole
                   /\ \/ copy = Whole(Len(executed) + 1)
                      \/ exit /\ copy.tail = Len(executed)

Buffer ==
  /\ rxbuf.tail = announced
  /\ rxbuf.head = announced + (IF arriving THEN 1 ELSE 0)

Runs ==
  \A i \in DOMAIN executed :
     \/ executed[i] = Whole(i)
     \/ /\ pc \in Ending \union {"exit", "stuck"} /\ exit
        /\ i = Len(executed) /\ executed[i].tail = i - 1

(* The list while the task serves and no leftover was added again: a       *)
(* sequence of distinct commands, those of the tables added so far and     *)
(* perhaps of leftovers.                                                   *)
BuiltInSoFar ==
  (IF init \in {"test", "thread", "done"} THEN {at_base_tbl} ELSE {})
    \union (IF init \in {"thread", "done"} THEN {at_test_tbl} ELSE {})
AddedSoFar == UNION {Range(t) : t \in linked \union BuiltInSoFar}

Listed ==
  /\ linked \subseteq AppTables /\ leftover \subseteq AppTables
  /\ (~again /\ pc \notin Ending) =>
       /\ tbl \in Seq(Items) /\ IsInjective(tbl)
       /\ init \in {"sema", "arm", "list", "base"} => tbl = <<>>
       /\ init # "done" => linked = {}
       /\ AddedSoFar \subseteq Range(tbl)
       /\ Range(tbl) \subseteq AddedSoFar \union Remains

(* Whatever the host does, as long as no deinit has begun: each line is    *)
(* one wake-up, and when none is to come and no line on its way, what was  *)
(* or is being copied is the last line.                                    *)
Busy == IF pc \in {"head", "tail", "run"} THEN 1 ELSE 0

Latest ==
  ~exit =>
    /\ pc = "none" => Len(executed) = 0
    /\ Len(executed) + Busy + sema.count = announced
    /\ (sema.count = 0 /\ ~arriving) =>
         /\ pc = "tail" => copy.head = announced
         /\ pc = "run" => copy = Whole(announced)
         /\ pc \in {"wait", "exit", "stuck"} /\ announced > 0 =>
              executed[Len(executed)] = Whole(announced)

Orderly == Serving /\ Running /\ Copied /\ Buffer /\ Runs

(* To the end of the task, for any host: what came has been run, is in the *)
(* task's hands or counted by the semaphore, the wake-up among it.         *)
Counted == pc # "gone" => Len(executed) + Busy + sema.count = announced + Extra

(* A host that waits begins a line when no other is left to be copied, and *)
(* the task's copy is of one line, or of one and the beginning of the next.*)
Waited ==
  /\ arriving => Taking + sema.count <= Extra
  /\ pc = "run" => copy.tail <= announced /\ copy.head \in {copy.tail, copy.tail + 1}

IInv == Types /\ Life /\ Giving /\ Buffer /\ Listed /\ Latest /\ Counted
          /\ (~hurried => Orderly /\ Waited)

-----------------------------------------------------------------------------
LEMMA InitIInv == Init => IInv
<1> SUFFICES ASSUME Init PROVE IInv
  OBVIOUS
<1> USE DEF Init
<1>1. Types
  <2>1. rxbuf \in HalfLines /\ copy \in HalfLines
    BY DEF HalfLines, Whole
  <2>2. sema \in [is : {"none", "live", "freed"}, count : Nat]
    OBVIOUS
  <2>3. executed \in Seq(HalfLines)
    OBVIOUS
  <2> QED BY <2>1, <2>2, <2>3 DEF Types, InitSteps, TaskSteps
<1>2. Life
  BY DEF Life, Ending
<1>3. Giving
  BY DEF Giving, GivesWhatIsThere
<1>4. Orderly
  BY DEF Orderly, Serving, Running, Copied, Buffer, Runs, AllWhole, Extra,
         Taking, Whole, Ending
<1>5. Buffer /\ Latest /\ Counted /\ Waited
  BY DEF Buffer, Latest, Counted, Waited, Busy, Extra, Taking, Whole
<1>6. Listed
  <2>1. tbl = <<>> /\ linked = {} /\ leftover = {} /\ init = "sema"
    OBVIOUS
  <2>2. tbl \in Seq(Items) /\ IsInjective(tbl) /\ Range(tbl) = {}
    BY <2>1 DEF IsInjective, Range
  <2>3. AddedSoFar = {}
    BY <2>1 DEF AddedSoFar, BuiltInSoFar
  <2> QED BY <2>1, <2>2, <2>3 DEF Listed
<1> QED BY <1>1, <1>2, <1>3, <1>4, <1>5, <1>6 DEF IInv

LEMMA StepTypes == Types /\ [Next]_vars => Types'
<1> SUFFICES ASSUME Types, [Next]_vars PROVE Types'
  OBVIOUS
<1> USE DEF Types, InitSteps, TaskSteps, isrvars, taskvars, deinitvars
<1> DEFINE Sema == [is : {"none", "live", "freed"}, count : Nat]
<1>0. Give(sema) \in Sema
  BY DEF Give
<1>1. CASE LineBegins
  <2>1. rxbuf' \in HalfLines
    BY <1>1 DEF LineBegins, HalfLines
  <2>2. UNCHANGED <<copy, announced, sema, init, pc, executed, deinit>>
    BY <1>1 DEF LineBegins
  <2> QED BY <2>1, <2>2
<1>2. CASE loguart_hdl_recv
  <2>1. rxbuf' \in HalfLines
    <3>1. rxbuf' = [rxbuf EXCEPT !.tail = announced + 1]
      BY <1>2 DEF loguart_hdl_recv
    <3>2. rxbuf \in HalfLines /\ announced + 1 \in Nat
      OBVIOUS
    <3> QED BY ONLY <3>1, <3>2 DEF HalfLines
  <2>2. sema' \in Sema
    BY <1>0, <1>2 DEF loguart_hdl_recv
  <2>3. announced' \in Nat /\ UNCHANGED <<copy, init, pc, executed, deinit>>
    BY <1>2 DEF loguart_hdl_recv
  <2> QED BY <2>1, <2>2, <2>3
<1>3. CASE at_hdl_int
  BY <1>3 DEF at_hdl_int, wl_init_sema, at_reg_loguart, wl_init_list,
              at_base_init, at_test_init, wl_create_thread
<1>4. CASE DeinitAsks \/ DeinitGives
  BY <1>0, <1>4 DEF DeinitAsks, DeinitGives
<1>5. CASE AppAdds \/ AppRemoves
  BY <1>5 DEF AppAdds, AppRemoves
<1>6. CASE at_task
  <2>1. CASE wl_wait_sema
    <3>1. sema' \in Sema
      BY <2>1 DEF wl_wait_sema
    <3> QED BY <2>1, <3>1 DEF wl_wait_sema
  <2>2. CASE CopyHead \/ CopyTail
    <3>1. copy' \in HalfLines
      BY <2>2 DEF CopyHead, CopyTail, HalfLines
    <3> QED BY <2>2, <3>1 DEF CopyHead, CopyTail
  <2>3. CASE at_cmd_hdl
    BY <2>3 DEF at_cmd_hdl
  <2>4. CASE \/ CheckExit \/ at_base_deinit \/ at_test_deinit
             \/ at_unreg_loguart \/ wl_free_sema
    BY <2>4 DEF CheckExit, at_base_deinit, at_test_deinit, at_unreg_loguart,
                wl_free_sema
  <2> QED BY <1>6, <2>1, <2>2, <2>3, <2>4 DEF at_task
<1>7. CASE UNCHANGED vars
  BY <1>7 DEF vars
<1> QED BY <1>1, <1>2, <1>3, <1>4, <1>5, <1>6, <1>7 DEF Next

LEMMA StepLife == Types /\ Life /\ [Next]_vars => Life'
<1> SUFFICES ASSUME Types, Life, [Next]_vars PROVE Life'
  OBVIOUS
<1> USE DEF Life, Ending, taskvars, deinitvars
<1>1. CASE LineBegins
  BY <1>1 DEF LineBegins
<1>2. CASE loguart_hdl_recv
  BY <1>2 DEF loguart_hdl_recv, Give, Types
<1>3. CASE at_hdl_int
  BY <1>3 DEF at_hdl_int, wl_init_sema, at_reg_loguart, wl_init_list,
              at_base_init, at_test_init, wl_create_thread
<1>4. CASE DeinitAsks \/ DeinitGives
  BY <1>4 DEF DeinitAsks, DeinitGives, Give, Types
<1>5. CASE AppAdds \/ AppRemoves
  BY <1>5 DEF AppAdds, AppRemoves
<1>6. CASE at_task
  BY <1>6 DEF at_task, wl_wait_sema, CopyHead, CopyTail, at_cmd_hdl, CheckExit,
              at_base_deinit, at_test_deinit, at_unreg_loguart, wl_free_sema, Types
<1>7. CASE UNCHANGED vars
  BY <1>7 DEF vars
<1> QED BY <1>1, <1>2, <1>3, <1>4, <1>5, <1>6, <1>7 DEF Next

LEMMA StepGiving == Types /\ Life /\ Giving /\ [Next]_vars => Giving'
<1> SUFFICES ASSUME Types, Life, Giving, [Next]_vars PROVE Giving'
  OBVIOUS
<1> USE DEF Giving, GivesWhatIsThere, taskvars, deinitvars
<1>1. CASE LineBegins
  BY <1>1 DEF LineBegins
<1>2. CASE loguart_hdl_recv
  BY <1>2 DEF loguart_hdl_recv, Give, Types, Life
<1>3. CASE at_hdl_int
  BY <1>3 DEF at_hdl_int, wl_init_sema, at_reg_loguart, wl_init_list,
              at_base_init, at_test_init, wl_create_thread, Life
<1>4. CASE DeinitAsks \/ DeinitGives
  <2>1. CASE DeinitAsks
    BY <2>1 DEF DeinitAsks, Idle
  <2>2. CASE DeinitGives
    <3>1. ~crowded => sema.is = "live"
      BY <2>2 DEF DeinitGives, Life
    <3> QED BY <2>2, <3>1 DEF DeinitGives
  <2> QED BY <1>4, <2>1, <2>2
<1>5. CASE AppAdds \/ AppRemoves
  BY <1>5 DEF AppAdds, AppRemoves
<1>6. CASE at_task
  BY <1>6 DEF at_task, wl_wait_sema, CopyHead, CopyTail, at_cmd_hdl, CheckExit,
              at_base_deinit, at_test_deinit, at_unreg_loguart, wl_free_sema, Types
<1>7. CASE UNCHANGED vars
  BY <1>7 DEF vars
<1> QED BY <1>1, <1>2, <1>3, <1>4, <1>5, <1>6, <1>7 DEF Next

-----------------------------------------------------------------------------
(* The list of commands.                                                   *)

LEMMA LeastNumber ==
  ASSUME NEW S \in SUBSET Nat, S # {}
  PROVE  \E h \in S : \A k \in S : h <= k
<1> DEFINE Less == {ss \in Nat \X Nat : ss[1] < ss[2]}
<1>1. OpToRel(<, Nat) = Less
  BY DEF OpToRel
<1>2. IsWellFoundedOn(Less, Nat)
  BY <1>1, NatLessThanWellFounded
<1> HIDE DEF Less
<1>3. PICK h \in S : \A k \in S : <<k, h>> \notin Less
  BY <1>2, WFMin, Zenon
<1>4. ASSUME NEW k \in S  PROVE h <= k
  <2>1. <<k, h>> \in Nat \X Nat /\ <<k, h>>[1] = k /\ <<k, h>>[2] = h
    OBVIOUS
  <2>2. ~(k < h)
    BY <1>3, <2>1 DEF Less
  <2> QED BY <2>2
<1> QED BY <1>4

(* The table that a fold of wl_list_add over the first n commands of t     *)
(* fills, for every subset of their places.                                *)
Fills(list, t, n, g) ==
  g = [s \in SUBSET (1..n) |->
         IF s = {} THEN list ELSE wl_list_add(g[s \ {Max(s)}], t[Max(s)])]

LEMMA GreatestPlace ==
  ASSUME NEW n \in Nat, NEW s \in SUBSET (1..n), n \in s
  PROVE  Max(s) = n
<1>1. \A y \in s : n >= y
  OBVIOUS
<1>2. ASSUME NEW x \in s, \A y \in s : x >= y PROVE x = n
  <2>1. x \in Int /\ x >= n /\ n >= x
    BY <1>1, <1>2
  <2> QED BY <2>1
<1>3. Max(s) \in s /\ \A y \in s : Max(s) >= y
  BY <1>1 DEF Max
<1> QED BY <1>2, <1>3

LEMMA FoldExists ==
  ASSUME NEW list, NEW t, NEW n \in Nat
  PROVE  \E g : Fills(list, t, n, g)
<1> DEFINE Bad == {k \in Nat : ~\E g : Fills(list, t, k, g)}
<1>1. SUFFICES Bad = {}
  OBVIOUS
<1>2. SUFFICES ASSUME NEW k \in Bad, \A j \in Bad : k <= j PROVE FALSE
  BY LeastNumber
<1>3. CASE k = 0
  <2> DEFINE g == [s \in SUBSET (1..0) |-> list]
  <2>1. \A s \in SUBSET (1..0) : s = {}
    OBVIOUS
  <2>2. Fills(list, t, 0, g)
    BY <2>1 DEF Fills
  <2> QED BY <1>3, <2>2
<1>4. CASE k # 0
  <2>1. k - 1 \in Nat /\ k - 1 \notin Bad
    BY <1>2, <1>4
  <2>2. PICK g : Fills(list, t, k - 1, g)
    BY <2>1
  <2> DEFINE F(s) == IF k \in s THEN wl_list_add(g[s \ {k}], t[k]) ELSE g[s]
             h == [s \in SUBSET (1..k) |-> F(s)]
  <2>3. ASSUME NEW s \in SUBSET (1..k)
        PROVE  h[s] = IF s = {} THEN list
                      ELSE wl_list_add(h[s \ {Max(s)}], t[Max(s)])
    <3>1. CASE k \in s
      <4>1. Max(s) = k /\ s \ {k} \in SUBSET (1..k) /\ k \notin s \ {k}
        BY <3>1, GreatestPlace
      <4>2. h[s \ {k}] = g[s \ {k}]
        BY <4>1
      <4> QED BY <3>1, <4>1, <4>2
    <3>2. CASE k \notin s
      <4>1. s \in SUBSET (1..k-1)
        BY <3>2
      <4>2. h[s] = g[s] /\ h[s \ {Max(s)}] = g[s \ {Max(s)}]
        BY <3>2
      <4>3. g[s] = IF s = {} THEN list ELSE wl_list_add(g[s \ {Max(s)}], t[Max(s)])
        BY <2>2, <4>1 DEF Fills
      <4> QED BY <4>2, <4>3
    <3> QED BY <3>1, <3>2
  <2>4. h = [s \in SUBSET (1..k) |-> h[s]]
    BY Zenon
  <2> HIDE DEF h
  <2>5. [s \in SUBSET (1..k) |-> h[s]] =
          [s \in SUBSET (1..k) |->
             IF s = {} THEN list ELSE wl_list_add(h[s \ {Max(s)}], t[Max(s)])]
    BY <2>3
  <2>6. Fills(list, t, k, h)
    BY ONLY <2>4, <2>5 DEF Fills
  <2> QED BY <2>6
<1> QED BY <1>3, <1>4

(* Commands that are not in the list are appended to it in their order.    *)
LEMMA AddNewTable ==
  ASSUME NEW X, NEW list \in Seq(X), NEW t \in Seq(X),
         IsInjective(t), Range(t) \cap Range(list) = {}
  PROVE  FoldLeft(wl_list_add, list, t) = list \o t
<1> DEFINE n == Len(t)
<1>1. n \in Nat /\ DOMAIN t = 1..n /\ \A i \in 1..n : t[i] \in X /\ t[i] \notin Range(list)
  <2>1. n \in Nat /\ DOMAIN t = 1..n /\ \A i \in 1..n : t[i] \in X
    OBVIOUS
  <2>2. ASSUME NEW i \in 1..n PROVE t[i] \notin Range(list)
    <3>1. t[i] \in Range(t)
      BY <2>1, Zenon DEF Range
    <3> QED BY <3>1, Zenon
  <2> QED BY <2>1, <2>2
<1>2. \A i, j \in 1..n : t[i] = t[j] => i = j
  BY <1>1 DEF IsInjective
<1> DEFINE g == CHOOSE f : Fills(list, t, n, f)
<1>3. Fills(list, t, n, g)
  BY <1>1, FoldExists
<1>4. FoldLeft(wl_list_add, list, t) = g[1..n]
  BY <1>1 DEF FoldLeft, MapThenFoldSet, Fills
<1> HIDE DEF g
<1>5. g[{}] = list
  BY <1>3 DEF Fills
<1>6. ASSUME NEW k \in 1..n, g[1..k-1] = list \o SubSeq(t, 1, k - 1)
      PROVE  g[1..k] = list \o SubSeq(t, 1, k)
  <2>1. 1..k \in SUBSET (1..n) /\ 1..k # {} /\ k \in 1..k
    BY <1>1
  <2>2. Max(1..k) = k
    BY <2>1, GreatestPlace
  <2>3. (1..k) \ {k} = 1..k-1
    OBVIOUS
  <2>4. g[1..k] = wl_list_add(g[1..k-1], t[k])
    BY <1>3, <2>1, <2>2, <2>3 DEF Fills
  <2> DEFINE u == list \o SubSeq(t, 1, k - 1)
  <2>5. SubSeq(t, 1, k - 1) \in Seq(X) /\ Len(SubSeq(t, 1, k - 1)) = k - 1
        /\ \A i \in 1..k-1 : SubSeq(t, 1, k - 1)[i] = t[i]
    BY <1>1
  <2>6. u \in Seq(X) /\ Len(u) = Len(list) + k - 1 /\ DOMAIN u = 1..Len(list) + k - 1
    BY <2>5
  <2>7. ASSUME NEW i \in DOMAIN u PROVE u[i] # t[k]
    <3>1. CASE i \in 1..Len(list)
      <4>1. u[i] = list[i] /\ list[i] \in Range(list)
        BY <2>5, <3>1 DEF Range
      <4> QED BY <1>1, <4>1
    <3>2. CASE i \notin 1..Len(list)
      <4>1. i - Len(list) \in 1..k-1 /\ u[i] = t[i - Len(list)]
        BY <2>5, <2>6, <3>2
      <4> QED BY <1>1, <1>2, <4>1
    <3> QED BY <3>1, <3>2
  <2>8. t[k] \notin Range(u)
    BY <2>7 DEF Range
  <2>9. g[1..k] = Append(u, t[k])
    BY <1>6, <2>4, <2>8 DEF wl_list_add
  <2>10. Append(u, t[k]) = list \o SubSeq(t, 1, k)
    <3> HIDE DEF n
    <3>1. SubSeq(t, 1, k) = Append(SubSeq(t, 1, k - 1), t[k])
      BY <1>1, <2>5 DEF n
    <3>2. list \in Seq(X) /\ SubSeq(t, 1, k - 1) \in Seq(X) /\ t[k] \in X
      BY <1>1, <2>5
    <3>3. \A v \in Seq(X), e \in X : Append(list \o v, e) = list \o Append(v, e)
      OBVIOUS
    <3> QED BY <3>1, <3>2, <3>3
  <2> QED BY <2>9, <2>10
<1> HIDE DEF n
<1>7. \A k \in 0..n : g[1..k] = list \o SubSeq(t, 1, k)
  <2> DEFINE Bad == {k \in 0..n : g[1..k] # list \o SubSeq(t, 1, k)}
  <2> SUFFICES ASSUME Bad # {} PROVE FALSE
    OBVIOUS
  <2>1. Bad \in SUBSET Nat
    BY <1>1
  <2>2. PICK k \in Bad : \A j \in Bad : k <= j
    BY <2>1, LeastNumber
  <2>3. k # 0
    <3>1. 1..0 = {} /\ SubSeq(t, 1, 0) = <<>> /\ list \o <<>> = list
      OBVIOUS
    <3> QED BY <1>5, <2>2, <3>1
  <2>4. k \in 1..n /\ k - 1 \in 0..n /\ k - 1 \notin Bad
    <3>1. k \in 0..n
      BY <2>2
    <3>2. k \in 1..n /\ k - 1 \in 0..n /\ ~(k <= k - 1)
      BY <1>1, <2>3, <3>1
    <3> QED BY <2>2, <3>2
  <2>5. g[1..k-1] = list \o SubSeq(t, 1, k - 1)
    BY <2>4
  <2> QED BY <1>6, <2>2, <2>4, <2>5
<1>8. SubSeq(t, 1, n) = t /\ n \in 0..n
  BY <1>1 DEF n
<1> QED BY <1>4, <1>7, <1>8

LEMMA RangeOfAppended ==
  ASSUME NEW X, NEW u \in Seq(X), NEW v \in Seq(X),
         IsInjective(u), IsInjective(v), Range(u) \cap Range(v) = {}
  PROVE  /\ u \o v \in Seq(X) /\ IsInjective(u \o v)
         /\ Range(u \o v) = Range(u) \union Range(v)
<1> DEFINE w == u \o v
           n == Len(u)
           k == Len(v)
<1>1. /\ w \in Seq(X) /\ n \in Nat /\ k \in Nat
      /\ DOMAIN w = 1..n + k /\ DOMAIN u = 1..n /\ DOMAIN v = 1..k
      /\ \A i \in 1..n : w[i] = u[i]
      /\ \A i \in 1..k : w[n + i] = v[i]
  OBVIOUS
<1> HIDE DEF w, n, k
<1>2. ASSUME NEW i \in 1..n + k
      PROVE  i \in 1..n \/ \E j \in 1..k : i = n + j
  <2>1. i \notin 1..n => i - n \in 1..k /\ i = n + (i - n)
    BY <1>1
  <2> QED BY <2>1
<1>3. Range(w) = Range(u) \union Range(v)
  <2>1. \A j \in 1..k : n + j \in 1..n + k
    BY <1>1
  <2>2. \A j \in 1..n : j \in 1..n + k
    BY <1>1
  <2>3. ASSUME NEW i \in 1..n + k PROVE w[i] \in Range(u) \union Range(v)
    BY <1>1, <1>2 DEF Range
  <2>4. Range(w) \subseteq Range(u) \union Range(v)
    BY <1>1, <2>3 DEF Range
  <2>5. Range(u) \subseteq Range(w) /\ Range(v) \subseteq Range(w)
    BY <1>1, <2>1, <2>2 DEF Range
  <2> QED BY <2>4, <2>5
<1>4. IsInjective(w)
  <2> SUFFICES ASSUME NEW i \in 1..n + k, NEW j \in 1..n + k, w[i] = w[j]
               PROVE  i = j
    BY <1>1 DEF IsInjective
  <2>1. \A a \in 1..n, b \in 1..k : u[a] # v[b]
    BY <1>1 DEF Range
  <2>2. \A a, b \in 1..n : u[a] = u[b] => a = b
    BY <1>1 DEF IsInjective
  <2>3. \A a, b \in 1..k : v[a] = v[b] => a = b
    BY <1>1 DEF IsInjective
  <2>4. CASE i \in 1..n /\ j \in 1..n
    BY <1>1, <2>2, <2>4
  <2>5. CASE i \in 1..n /\ j \notin 1..n
    <3>1. PICK b \in 1..k : j = n + b
      BY <1>2, <2>5
    <3>2. u[i] = v[b]
      BY <1>1, <2>5, <3>1
    <3> QED BY <2>1, <2>5, <3>2
  <2>6. CASE i \notin 1..n /\ j \in 1..n
    <3>1. PICK a \in 1..k : i = n + a
      BY <1>2, <2>6
    <3>2. u[j] = v[a]
      BY <1>1, <2>6, <3>1
    <3> QED BY <2>1, <2>6, <3>2
  <2>7. CASE i \notin 1..n /\ j \notin 1..n
    <3>1. PICK a \in 1..k : i = n + a
      BY <1>2, <2>7
    <3>2. PICK b \in 1..k : j = n + b
      BY <1>2, <2>7
    <3>3. v[a] = v[b]
      BY <1>1, <3>1, <3>2
    <3> QED BY <2>3, <3>1, <3>2, <3>3
  <2> QED BY <2>4, <2>5, <2>6, <2>7
<1> QED BY <1>1, <1>3, <1>4 DEF w

(* A command taken from a list that has no command twice is gone, and all  *)
(* others stay.                                                            *)
LEMMA RemoveTakesOne ==
  ASSUME NEW X, NEW list \in Seq(X), IsInjective(list), NEW e
  PROVE  /\ RemoveFirst(list, e) \in Seq(X) /\ IsInjective(RemoveFirst(list, e))
         /\ Range(RemoveFirst(list, e)) = Range(list) \ {e}
<1> DEFINE n == Len(list)
<1>1. CASE ~\E i \in 1..n : list[i] = e
  <2>1. RemoveFirst(list, e) = list
    BY <1>1 DEF RemoveFirst
  <2>2. e \notin Range(list)
    BY <1>1 DEF Range
  <2> QED BY <2>1, <2>2
<1>2. ASSUME NEW i \in 1..n, list[i] = e
      PROVE  /\ RemoveFirst(list, e) \in Seq(X) /\ IsInjective(RemoveFirst(list, e))
             /\ Range(RemoveFirst(list, e)) = Range(list) \ {e}
  <2>1. \A j \in 1..n : list[j] = e => j = i
    BY <1>2 DEF IsInjective
  <2>2. {j \in 1..n : list[j] = e} = {i}
    BY <1>2, <2>1
  <2>3. Min({i}) = i
    BY DEF Min
  <2>4. SelectInSeq(list, LAMBDA v : v = e) = i
    BY <2>2, <2>3 DEF SelectInSeq
  <2> DEFINE u == SubSeq(list, 1, i - 1)
             v == SubSeq(list, i + 1, n)
  <2>5. RemoveFirst(list, e) = u \o v
    BY <1>2, <2>4 DEF RemoveFirst, RemoveAt
  <2>6. /\ u \in Seq(X) /\ Len(u) = i - 1 /\ DOMAIN u = 1..i-1
        /\ \A j \in 1..i-1 : u[j] = list[j] /\ j \in 1..n
    BY <1>2
  <2>7. /\ v \in Seq(X) /\ Len(v) = n - i /\ DOMAIN v = 1..n-i
        /\ \A j \in 1..n-i : v[j] = list[i + j] /\ i + j \in 1..n
    BY <1>2
  <2> HIDE DEF u, v
  <2>8. \A a, b \in 1..n : list[a] = list[b] => a = b
    BY DEF IsInjective
  <2>9. IsInjective(u)
    BY <2>6, <2>8 DEF IsInjective
  <2>10. IsInjective(v)
    <3> SUFFICES ASSUME NEW a \in 1..n-i, NEW b \in 1..n-i, v[a] = v[b]
                 PROVE  a = b
      BY <2>7 DEF IsInjective
    <3>1. i + a = i + b
      BY <2>7, <2>8
    <3> QED BY <3>1
  <2>11. Range(u) \cap Range(v) = {}
    <3> SUFFICES ASSUME NEW a \in 1..i-1, NEW b \in 1..n-i, u[a] = v[b]
                 PROVE  FALSE
      BY <2>6, <2>7 DEF Range
    <3>1. a = i + b
      BY <2>6, <2>7, <2>8
    <3> QED BY <3>1
  <2>12. Range(u) \union Range(v) = Range(list) \ {e}
    <3>1. ASSUME NEW a \in 1..i-1 PROVE u[a] \in Range(list) /\ u[a] # e
      BY <1>2, <2>1, <2>6 DEF Range
    <3>2. ASSUME NEW b \in 1..n-i PROVE v[b] \in Range(list) /\ v[b] # e
      <4>1. v[b] = list[i + b] /\ i + b \in 1..n /\ i + b # i
        BY <2>7
      <4> QED BY <2>1, <4>1 DEF Range
    <3>3. ASSUME NEW a \in 1..n, list[a] # e
          PROVE  list[a] \in Range(u) \union Range(v)
      <4>1. CASE a < i
        BY <2>6, <4>1 DEF Range
      <4>2. CASE a > i
        <5>1. a - i \in 1..n-i /\ i + (a - i) = a
          BY <4>2
        <5> QED BY <2>7, <5>1 DEF Range
      <4> QED BY <1>2, <3>3, <4>1, <4>2
    <3>4. Range(u) \union Range(v) \subseteq Range(list) \ {e}
      BY <2>6, <2>7, <3>1, <3>2 DEF Range
    <3>5. Range(list) \ {e} \subseteq Range(u) \union Range(v)
      BY <3>3 DEF Range
    <3> QED BY <3>4, <3>5
  <2> QED BY <2>5, <2>6, <2>7, <2>9, <2>10, <2>11, <2>12, RangeOfAppended
<1> QED BY <1>1, <1>2

(* The command lists of two tables have nothing in common.                 *)
LEMMA TablesApart ==
  ASSUME NEW t \in Tables, NEW L \in SUBSET Tables, t \notin L
  PROVE  Range(t) \cap UNION {Range(u) : u \in L} = {}
<1>1. \A u \in L : Range(u) \cap Range(t) = {}
  BY AtAssumption
<1> QED BY <1>1

(* A table that is not in the list and left nothing there is added as it   *)
(* is.                                                                     *)
LEMMA AddsTable ==
  ASSUME Listed, ~again, pc \notin Ending,
         NEW t \in Tables, t \notin linked \union BuiltInSoFar \union leftover,
         at_add_cmd(t)
  PROVE  /\ tbl' \in Seq(Items) /\ IsInjective(tbl')
         /\ Range(tbl') = Range(tbl) \union Range(t)
<1>1. linked \union BuiltInSoFar \in SUBSET Tables /\ leftover \in SUBSET Tables
  BY DEF Listed, BuiltInSoFar, BuiltIn, Tables
<1>2. Range(t) \cap AddedSoFar = {}
  BY <1>1, TablesApart DEF AddedSoFar
<1>3. Remains \subseteq UNION {Range(u) : u \in leftover}
  <2>1. ASSUME NEW u \in leftover PROVE Range(Tail(u)) \subseteq Range(u)
    <3>1. u \in Seq(Range(u)) /\ u # <<>>
      BY <1>1, AtAssumption
    <3>2. /\ DOMAIN Tail(u) = 1..Len(u)-1
          /\ \A i \in 1..Len(u)-1 : Tail(u)[i] = u[i + 1] /\ i + 1 \in DOMAIN u
      BY <3>1
    <3> QED BY <3>2 DEF Range
  <2> QED BY <2>1 DEF Remains
<1>4. Range(t) \cap Remains = {}
  <2>1. Range(t) \cap UNION {Range(u) : u \in leftover} = {}
    BY <1>1, TablesApart
  <2> QED BY <1>3, <2>1
<1>5. Range(t) \cap Range(tbl) = {}
  BY <1>2, <1>4 DEF Listed
<1>6. t \in Seq(Items) /\ IsInjective(t)
  <2>1. t \in Seq(Range(t)) /\ IsInjective(t)
    BY AtAssumption
  <2>2. Range(t) \subseteq Items
    BY DEF Items
  <2> QED BY <2>1, <2>2
<1>7. tbl \in Seq(Items) /\ IsInjective(tbl)
  BY DEF Listed
<1>8. tbl' = tbl \o t
  BY <1>5, <1>6, <1>7, AddNewTable DEF at_add_cmd
<1> QED BY <1>5, <1>6, <1>7, <1>8, RangeOfAppended

(* A step that leaves the list and its tables as they are.                 *)
LEMMA SameList ==
  ASSUME Listed, UNCHANGED <<tbl, linked, leftover, again>>,
         pc' \notin Ending => pc \notin Ending,
         \/ UNCHANGED init
         \/ init \in {"sema", "arm", "list"} /\ init' \in {"arm", "list", "base"}
         \/ init = "thread" /\ init' = "done"
  PROVE  Listed'
<1>1. BuiltInSoFar' = BuiltInSoFar
  BY DEF BuiltInSoFar
<1>2. AddedSoFar' = AddedSoFar
  BY <1>1 DEF AddedSoFar
<1>3. Remains' = Remains
  BY DEF Remains
<1>4. init \in {"sema", "arm", "list", "base"} <=> init' \in {"sema", "arm", "list", "base"}
  OBVIOUS
<1>5. init' # "done" => init # "done"
  OBVIOUS
<1> QED BY <1>2, <1>3, <1>4, <1>5 DEF Listed

LEMMA ListedInit == Life /\ Listed /\ at_hdl_int => Listed'
<1> SUFFICES ASSUME Life, Listed, at_hdl_int PROVE Listed'
  OBVIOUS
<1>0. pc = "none" /\ pc \notin Ending
  BY DEF at_hdl_int, wl_init_sema, at_reg_loguart, wl_init_list, at_base_init, at_test_init,
         wl_create_thread, Life, Ending
<1>1. CASE wl_init_sema \/ at_reg_loguart \/ wl_create_thread
  <2>1. UNCHANGED <<tbl, linked, leftover, again>>
    BY <1>1 DEF wl_init_sema, at_reg_loguart, wl_create_thread, listvars
  <2>2. \/ init \in {"sema", "arm", "list"} /\ init' \in {"arm", "list", "base"}
        \/ init = "thread" /\ init' = "done"
    BY <1>1 DEF wl_init_sema, at_reg_loguart, wl_create_thread
  <2> QED BY <1>0, <2>1, <2>2, SameList
<1>2. CASE wl_init_list
  <2>1. /\ init = "list" /\ init' = "base" /\ tbl' = <<>>
        /\ UNCHANGED <<linked, leftover, again>>
    BY <1>2 DEF wl_init_list, listvars
  <2>2. CASE again
    BY <2>1, <2>2 DEF Listed
  <2>3. CASE ~again
    <3>1. tbl' = tbl
      BY <1>0, <2>1, <2>3 DEF Listed
    <3> QED BY <1>0, <2>1, <3>1, SameList
  <2> QED BY <2>2, <2>3
<1>3. ASSUME NEW t \in BuiltIn, at_add_cmd(t), init # "done", init' # "done",
             t \notin BuiltInSoFar, BuiltInSoFar' = BuiltInSoFar \union {t},
             init' \notin {"sema", "arm", "list", "base"},
             UNCHANGED <<linked, leftover, again>>
      PROVE  Listed'
  <2>1. linked \subseteq AppTables /\ leftover \subseteq AppTables
    BY DEF Listed
  <2>2. CASE again
    BY <1>3, <2>1, <2>2 DEF Listed
  <2>3. CASE ~again
    <3>1. t \notin linked \union BuiltInSoFar \union leftover /\ t \in Tables
      BY <1>3, <2>1, AtAssumption DEF Tables
    <3>2. /\ tbl' \in Seq(Items) /\ IsInjective(tbl')
          /\ Range(tbl') = Range(tbl) \union Range(t)
      BY <1>0, <1>3, <2>3, <3>1, AddsTable
    <3>3. AddedSoFar' = AddedSoFar \union Range(t)
      BY <1>3 DEF AddedSoFar
    <3>4. Remains' = Remains
      BY <1>3 DEF Remains
    <3>5. /\ linked = {} /\ AddedSoFar \subseteq Range(tbl)
          /\ Range(tbl) \subseteq AddedSoFar \union Remains
      BY <1>0, <1>3, <2>3 DEF Listed
    <3> QED BY <1>3, <2>1, <3>2, <3>3, <3>4, <3>5 DEF Listed
  <2> QED BY <2>2, <2>3
<1>4. CASE at_base_init
  <2>1. /\ init = "base" /\ init' = "test" /\ at_add_cmd(at_base_tbl)
        /\ UNCHANGED <<linked, leftover, again>>
    BY <1>4 DEF at_base_init, listvars
  <2>2. /\ at_base_tbl \notin BuiltInSoFar
        /\ BuiltInSoFar' = BuiltInSoFar \union {at_base_tbl}
    BY <2>1 DEF BuiltInSoFar
  <2> QED BY <1>3, <2>1, <2>2 DEF BuiltIn
<1>5. CASE at_test_init
  <2>1. /\ init = "test" /\ init' = "thread" /\ at_add_cmd(at_test_tbl)
        /\ UNCHANGED <<linked, leftover, again>>
    BY <1>5 DEF at_test_init, listvars
  <2>2. /\ at_test_tbl \notin BuiltInSoFar
        /\ BuiltInSoFar' = BuiltInSoFar \union {at_test_tbl}
    BY <2>1, AtAssumption DEF BuiltInSoFar
  <2> QED BY <1>3, <2>1, <2>2 DEF BuiltIn
<1> QED BY <1>1, <1>2, <1>4, <1>5 DEF at_hdl_int

LEMMA ListedAdds == Listed /\ AppAdds => Listed'
<1> SUFFICES ASSUME Listed, AppAdds PROVE Listed'
  OBVIOUS
<1>1. PICK t \in AppTables \ linked :
        /\ at_add_cmd(t) /\ linked' = linked \union {t}
        /\ again' = (again \/ t \in leftover)
  BY DEF AppAdds
<1>2. init = "done" /\ UNCHANGED <<init, pc, leftover>>
  BY DEF AppAdds, taskvars
<1>3. linked' \subseteq AppTables /\ leftover' \subseteq AppTables
  BY <1>1, <1>2 DEF Listed
<1>4. SUFFICES ASSUME ~again', pc' \notin Ending
               PROVE  /\ tbl' \in Seq(Items) /\ IsInjective(tbl')
                      /\ AddedSoFar' \subseteq Range(tbl')
                      /\ Range(tbl') \subseteq AddedSoFar' \union Remains'
  BY <1>2, <1>3 DEF Listed
<1>5. ~again /\ t \notin leftover /\ pc \notin Ending
  BY <1>1, <1>2, <1>4
<1>6. t \in Tables /\ t \notin linked \union BuiltInSoFar \union leftover
  BY <1>1, <1>5, AtAssumption DEF Tables, BuiltIn, BuiltInSoFar
<1>7. /\ tbl' \in Seq(Items) /\ IsInjective(tbl')
      /\ Range(tbl') = Range(tbl) \union Range(t)
  BY <1>1, <1>5, <1>6, AddsTable
<1>8. AddedSoFar' = AddedSoFar \union Range(t) /\ Remains' = Remains
  BY <1>1, <1>2 DEF AddedSoFar, BuiltInSoFar, Remains
<1> QED BY <1>5, <1>7, <1>8 DEF Listed

LEMMA ListedRemoves == Listed /\ AppRemoves => Listed'
<1> SUFFICES ASSUME Listed, AppRemoves PROVE Listed'
  OBVIOUS
<1>1. PICK t \in linked :
        /\ at_remove_cmd(t) /\ linked' = linked \ {t}
        /\ leftover' = IF Len(t) > 1 THEN leftover \union {t} ELSE leftover
  BY DEF AppRemoves
<1>2. init = "done" /\ UNCHANGED <<init, pc, again>>
  BY DEF AppRemoves, taskvars
<1>3. linked' \subseteq AppTables /\ leftover' \subseteq AppTables
  BY <1>1, <1>2 DEF Listed
<1>4. SUFFICES ASSUME ~again, pc \notin Ending
               PROVE  /\ tbl' \in Seq(Items) /\ IsInjective(tbl')
                      /\ AddedSoFar' \subseteq Range(tbl')
                      /\ Range(tbl') \subseteq AddedSoFar' \union Remains'
  BY <1>2, <1>3 DEF Listed
<1>5. /\ tbl' \in Seq(Items) /\ IsInjective(tbl')
      /\ Range(tbl') = Range(tbl) \ {t[1]}
  BY <1>1, <1>4, RemoveTakesOne DEF at_remove_cmd, Listed
<1> DEFINE L == (linked \ {t}) \union BuiltInSoFar
<1>6. t \in Tables /\ L \in SUBSET Tables /\ t \notin L
  BY <1>1, AtAssumption DEF Listed, Tables, BuiltIn, BuiltInSoFar
<1>7. AddedSoFar' = UNION {Range(u) : u \in L} /\ AddedSoFar = AddedSoFar' \union Range(t)
  BY <1>1, <1>2 DEF AddedSoFar, BuiltInSoFar
<1>8. Range(t) \cap AddedSoFar' = {}
  BY <1>6, <1>7, TablesApart
<1>9. t \in Seq(Range(t)) /\ t # <<>>
  BY <1>6, AtAssumption
<1>10. t[1] \in Range(t)
  BY <1>9 DEF Range
<1>11. Range(t) \ {t[1]} \subseteq Remains'
  <2>1. ASSUME NEW i \in 1..Len(t), t[i] # t[1] PROVE t[i] \in Remains'
    <3>1. i - 1 \in 1..Len(t)-1 /\ Len(t) > 1 /\ DOMAIN Tail(t) = 1..Len(t)-1
          /\ Tail(t)[i - 1] = t[i]
      BY <1>9, <2>1
    <3>2. t \in leftover' /\ t[i] \in Range(Tail(t))
      BY <1>1, <3>1 DEF Range
    <3> QED BY <3>2 DEF Remains
  <2> QED BY <1>9, <2>1 DEF Range
<1>12. Remains \subseteq Remains'
  BY <1>1 DEF Remains
<1>13. AddedSoFar \subseteq Range(tbl) /\ Range(tbl) \subseteq AddedSoFar \union Remains
  BY <1>4 DEF Listed
<1>14. AddedSoFar' \subseteq Range(tbl')
  BY <1>5, <1>7, <1>8, <1>10, <1>13
<1>15. Range(tbl') \subseteq AddedSoFar' \union Remains'
  BY <1>5, <1>7, <1>11, <1>12, <1>13
<1> QED BY <1>5, <1>14, <1>15

LEMMA StepListed == Life /\ Listed /\ [Next]_vars => Listed'
<1> SUFFICES ASSUME Life, Listed, [Next]_vars PROVE Listed'
  OBVIOUS
<1>1. CASE \/ LineBegins \/ loguart_hdl_recv \/ DeinitAsks \/ DeinitGives
           \/ wl_wait_sema \/ CopyHead \/ CopyTail \/ at_cmd_hdl \/ CheckExit
           \/ at_unreg_loguart \/ wl_free_sema \/ UNCHANGED vars
  <2>1. UNCHANGED <<tbl, linked, leftover, again, init>>
    BY <1>1 DEF LineBegins, loguart_hdl_recv, DeinitAsks, DeinitGives, wl_wait_sema, CopyHead,
                CopyTail, at_cmd_hdl, CheckExit, at_unreg_loguart, wl_free_sema, vars, listvars
  <2>2. pc' \notin Ending => pc \notin Ending
    BY <1>1 DEF LineBegins, loguart_hdl_recv, DeinitAsks, DeinitGives, wl_wait_sema, CopyHead,
                CopyTail, at_cmd_hdl, CheckExit, at_unreg_loguart, wl_free_sema, vars,
                taskvars, Ending
  <2> QED BY <2>1, <2>2, SameList
<1>2. CASE at_base_deinit \/ at_test_deinit
  <2>1. pc' \in Ending /\ UNCHANGED <<linked, leftover>>
    BY <1>2 DEF at_base_deinit, at_test_deinit, Ending, listvars
  <2> QED BY <2>1 DEF Listed
<1> QED BY <1>1, <1>2, ListedInit, ListedAdds, ListedRemoves DEF Next, at_task

-----------------------------------------------------------------------------
(* The last line.                                                          *)

LEMMA StepBuffer == Types /\ Buffer /\ [Next]_vars => Buffer'
<1> SUFFICES ASSUME Types, Buffer, [Next]_vars PROVE Buffer'
  OBVIOUS
<1> USE DEF Buffer
<1>1. CASE LineBegins
  BY <1>1 DEF LineBegins, Types, HalfLines
<1>2. CASE loguart_hdl_recv
  BY <1>2 DEF loguart_hdl_recv, Types, HalfLines
<1>3. CASE ~LineBegins /\ ~loguart_hdl_recv
  <2>1. UNCHANGED <<rxbuf, announced, arriving>>
    BY <1>3 DEF Next, at_hdl_int, wl_init_sema, at_reg_loguart, wl_init_list, at_base_init,
                at_test_init, wl_create_thread, DeinitAsks, DeinitGives, AppAdds,
                AppRemoves, at_task, wl_wait_sema, CopyHead, CopyTail, at_cmd_hdl,
                CheckExit, at_base_deinit, at_test_deinit, at_unreg_loguart, wl_free_sema,
                vars, isrvars
  <2> QED BY <2>1
<1> QED BY <1>1, <1>2, <1>3

LEMMA StepLatest ==
  Types /\ Life /\ Buffer /\ Latest /\ [Next]_vars => Latest'
<1> SUFFICES ASSUME Types, Life, Buffer, Latest, [Next]_vars, ~exit'
             PROVE  Latest'
  BY DEF Latest
<1> USE DEF Latest, Busy
<1>1. CASE LineBegins
  BY <1>1 DEF LineBegins, taskvars
<1>2. CASE loguart_hdl_recv
  <2>1. /\ sema'.count = sema.count + 1 /\ announced' = announced + 1
        /\ UNCHANGED <<pc, copy, executed, exit>>
    BY <1>2 DEF loguart_hdl_recv, Life, Give, Types, taskvars
  <2>2. /\ Len(executed) \in Nat /\ sema.count \in Nat /\ announced \in Nat
        /\ Len(executed') = Len(executed)
    BY <2>1 DEF Types
  <2> QED BY <2>1, <2>2
<1>3. CASE at_hdl_int
  <2>1. pc = "none" /\ ~exit /\ UNCHANGED <<announced, arriving, copy, executed>>
        /\ pc' \in {"none", "wait", "failed"} /\ sema'.count = sema.count
    BY <1>3 DEF at_hdl_int, wl_init_sema, at_reg_loguart, wl_init_list, at_base_init,
                at_test_init, wl_create_thread, Life, isrvars, taskvars
  <2>2. Len(executed) = 0 /\ sema.count \in Nat /\ announced \in Nat
    BY <2>1 DEF Types
  <2> QED BY <2>1, <2>2
<1>4. CASE DeinitAsks \/ DeinitGives
  BY <1>4 DEF DeinitAsks, DeinitGives, Life
<1>5. CASE AppAdds \/ AppRemoves \/ UNCHANGED vars
  <2>1. UNCHANGED <<announced, arriving, sema, pc, copy, executed, exit>>
    BY <1>5 DEF AppAdds, AppRemoves, vars, isrvars, taskvars
  <2> QED BY <2>1
<1>6. CASE wl_wait_sema
  <2>1. /\ pc = "wait" /\ pc' = "head" /\ sema'.count = sema.count - 1
        /\ UNCHANGED <<announced, arriving, copy, executed, exit>>
    BY <1>6 DEF wl_wait_sema, Types, isrvars
  <2>2. Len(executed) \in Nat /\ sema.count \in Nat /\ announced \in Nat
    BY DEF Types
  <2> QED BY <2>1, <2>2
<1>7. CASE CopyHead
  <2>1. /\ pc = "head" /\ pc' = "tail" /\ copy'.head = rxbuf.head
        /\ UNCHANGED <<announced, arriving, sema, executed, exit>>
    BY <1>7 DEF CopyHead, Types, HalfLines, isrvars
  <2> QED BY <2>1 DEF Buffer, Types
<1>8. CASE CopyTail
  <2>1. /\ pc = "tail" /\ pc' = "run" /\ copy' \in HalfLines
        /\ copy'.head = copy.head /\ copy'.tail = rxbuf.tail
        /\ UNCHANGED <<announced, arriving, sema, executed, exit>>
    BY <1>8 DEF CopyTail, Types, HalfLines, isrvars
  <2>2. (sema.count = 0 /\ ~arriving) => copy' = Whole(announced)
    BY <2>1 DEF Buffer, HalfLines, Whole
  <2> QED BY <2>1, <2>2
<1>9. CASE at_cmd_hdl
  <2>1. /\ pc = "run" /\ pc' \in {"exit", "stuck"} /\ executed' = Append(executed, copy)
        /\ UNCHANGED <<announced, arriving, sema, copy, exit>>
    BY <1>9 DEF at_cmd_hdl, isrvars
  <2>2. /\ Len(executed) \in Nat /\ Len(executed') = Len(executed) + 1
        /\ executed'[Len(executed')] = copy
        /\ sema.count \in Nat /\ announced \in Nat
    BY <2>1 DEF Types
  <2> QED BY <2>1, <2>2
<1>10. CASE CheckExit
  <2>1. pc = "exit" /\ pc' = "wait"
        /\ UNCHANGED <<announced, arriving, sema, copy, executed, exit>>
    BY <1>10 DEF CheckExit, isrvars
  <2> QED BY <2>1
<1>11. CASE at_base_deinit \/ at_test_deinit \/ at_unreg_loguart \/ wl_free_sema
  BY <1>11 DEF at_base_deinit, at_test_deinit, at_unreg_loguart, wl_free_sema, Life, Ending
<1> QED BY <1>1, <1>2, <1>3, <1>4, <1>5, <1>6, <1>7, <1>8, <1>9, <1>10, <1>11
           DEF Next, at_task

-----------------------------------------------------------------------------
(* The order of the lines: one lemma for each kind of step.                *)

(* A step that leaves alone all that Orderly speaks of.                    *)
OrderVars == <<rxbuf, announced, arriving, pc, copy, executed, exit, deinit, sema>>

LEMMA SameOrder == Orderly /\ UNCHANGED OrderVars => Orderly'
  BY DEF OrderVars, Orderly, Serving, Running, Copied, Buffer, Runs, AllWhole,
         Extra, Taking

LEMMA OrderLineBegins ==
  Types /\ Orderly /\ LineBegins /\ ~hurried' => Orderly'
<1> SUFFICES ASSUME Types, Orderly, LineBegins, ~hurried' PROVE Orderly'
  OBVIOUS
<1> USE DEF taskvars, deinitvars
<1>1. ~(sema.count > 0) /\ pc \notin {"head", "tail"}
  BY DEF LineBegins, Uncopied
<1>2. sema.count = 0
  BY <1>1 DEF Types
<1>3. /\ rxbuf'.head = announced + 1 /\ rxbuf'.tail = rxbuf.tail
      /\ arriving' /\ UNCHANGED <<announced, sema, exit, pc, copy, executed, deinit>>
  BY DEF LineBegins, Types, HalfLines
<1>4. Serving'
  BY <1>1, <1>2, <1>3 DEF Types, Orderly, Serving, AllWhole, Taking, Extra
<1>5. Running'
  BY <1>1, <1>2, <1>3 DEF Orderly, Running, AllWhole
<1>6. Copied' /\ Buffer' /\ Runs'
  BY <1>1, <1>3 DEF Orderly, Copied, Buffer, Runs, AllWhole
<1> QED BY <1>4, <1>5, <1>6 DEF Orderly

LEMMA OrderRecv == Types /\ Life /\ Orderly /\ loguart_hdl_recv => Orderly'
<1> SUFFICES ASSUME Types, Life, Orderly, loguart_hdl_recv PROVE Orderly'
  OBVIOUS
<1> USE DEF taskvars
<1>1. sema.is = "live"
  BY DEF loguart_hdl_recv, Life
<1>2. sema'.count = sema.count + 1
  BY <1>1 DEF loguart_hdl_recv, Give, Types
<1>3. /\ rxbuf'.head = rxbuf.head /\ rxbuf'.tail = announced + 1
      /\ arriving /\ ~arriving' /\ announced' = announced + 1
      /\ UNCHANGED <<exit, pc, copy, executed, deinit>>
  BY DEF loguart_hdl_recv, Types, HalfLines
<1>4. Serving'
  BY <1>2, <1>3 DEF Types, Orderly, Serving, AllWhole, Taking, Extra
<1>5. Running'
  BY <1>2, <1>3 DEF Types, Orderly, Running, AllWhole
<1>6. Copied' /\ Buffer' /\ Runs'
  BY <1>3 DEF Types, Orderly, Copied, Buffer, Runs, AllWhole
<1> QED BY <1>4, <1>5, <1>6 DEF Orderly

LEMMA OrderInit == Types /\ Life /\ Orderly /\ at_hdl_int => Orderly'
<1> SUFFICES ASSUME Types, Life, Orderly, at_hdl_int PROVE Orderly'
  OBVIOUS
<1> USE DEF taskvars, deinitvars, isrvars
<1>1. pc = "none" /\ ~exit /\ deinit = "no"
  BY DEF at_hdl_int, wl_init_sema, at_reg_loguart, wl_init_list, at_base_init, at_test_init,
         wl_create_thread, Life
<1>2. /\ UNCHANGED <<rxbuf, announced, arriving, copy, executed, deinit>>
      /\ pc' \in {"none", "wait", "failed"} /\ ~exit'
  BY <1>1 DEF at_hdl_int, wl_init_sema, at_reg_loguart, wl_init_list,
              at_base_init, at_test_init, wl_create_thread
<1>3. sema'.count = sema.count \/ (sema'.count = 0 /\ init = "sema")
  BY DEF at_hdl_int, wl_init_sema, at_reg_loguart, wl_init_list, at_base_init, at_test_init,
         wl_create_thread
<1>4. init = "sema" => sema.count = 0
  BY DEF Life
<1> QED
  BY <1>1, <1>2, <1>3, <1>4 DEF Orderly, Serving, Running, Copied, Buffer, Runs,
     AllWhole, Taking, Extra, Types, Ending

LEMMA OrderDeinit ==
  Types /\ Life /\ Orderly /\ (DeinitAsks \/ DeinitGives) => Orderly'
<1> SUFFICES ASSUME Types, Life, Orderly, DeinitAsks \/ DeinitGives PROVE Orderly'
  OBVIOUS
<1> USE DEF taskvars, deinitvars, isrvars
<1>1. CASE DeinitAsks
  BY <1>1 DEF DeinitAsks, Orderly, Serving, Running, Copied, Buffer, Runs,
              AllWhole, Taking, Extra
<1>2. CASE DeinitGives
  <2>1. /\ deinit = "give" /\ deinit' = "done" /\ exit
        /\ UNCHANGED <<rxbuf, announced, arriving, pc, copy, executed, exit>>
    BY <1>2 DEF DeinitGives, Life
  <2>2. pc # "gone" => sema'.count = sema.count + 1
    BY <1>2 DEF DeinitGives, Give, Life, Types
  <2>3. Serving'
    BY <2>1, <2>2 DEF Orderly, Serving, AllWhole, Taking, Extra, Types
  <2>4. Running' /\ Copied' /\ Buffer' /\ Runs'
    BY <2>1 DEF Orderly, Running, Copied, Buffer, Runs, AllWhole
  <2> QED BY <2>3, <2>4 DEF Orderly
<1> QED BY <1>1, <1>2

LEMMA OrderTake == Types /\ Orderly /\ wl_wait_sema => Orderly'
<1> SUFFICES ASSUME Types, Orderly, wl_wait_sema PROVE Orderly'
  OBVIOUS
<1>1. /\ pc = "wait" /\ pc' = "head" /\ sema'.count = sema.count - 1
      /\ UNCHANGED <<rxbuf, announced, arriving, copy, executed, exit, deinit>>
  BY DEF wl_wait_sema, Types, isrvars, deinitvars
<1>2. Serving'
  BY <1>1 DEF Orderly, Serving, AllWhole, Taking, Extra, Types
<1>3. Running' /\ Copied' /\ Buffer' /\ Runs'
  BY <1>1 DEF Orderly, Running, Copied, Buffer, Runs, AllWhole, Ending
<1> QED BY <1>2, <1>3 DEF Orderly

LEMMA OrderCopy == Types /\ Life /\ Orderly /\ (CopyHead \/ CopyTail) => Orderly'
<1> SUFFICES ASSUME Types, Life, Orderly, CopyHead \/ CopyTail PROVE Orderly'
  OBVIOUS
<1> USE DEF isrvars, deinitvars
<1>1. CASE CopyHead
  <2>1. /\ pc = "head" /\ pc' = "tail" /\ copy'.head = rxbuf.head
        /\ UNCHANGED <<rxbuf, announced, arriving, sema, executed, exit, deinit>>
    BY <1>1 DEF CopyHead, Types, HalfLines
  <2> QED
    BY <2>1 DEF Orderly, Serving, Running, Copied, Buffer, Runs, AllWhole,
                Taking, Extra, Ending
<1>2. CASE CopyTail
  <2>1. /\ pc = "tail" /\ pc' = "run"
        /\ UNCHANGED <<rxbuf, announced, arriving, sema, executed, exit, deinit>>
        /\ copy' \in HalfLines
        /\ copy'.head = copy.head /\ copy'.tail = rxbuf.tail
    BY <1>2 DEF CopyTail, Types, HalfLines
  <2>2. copy'.head = rxbuf.head /\ copy'.tail = announced
    BY <2>1 DEF Orderly, Copied, Buffer
  <2>3. /\ AllWhole /\ Len(executed) \in Nat /\ sema.count \in Nat
        /\ Len(executed) + 1 + sema.count = announced + Extra
        /\ sema.count <= Extra
        /\ arriving => 1 + sema.count = Extra
    BY <2>1 DEF Orderly, Serving, Taking, Extra, Types
  <2>4. \/ copy'.head = announced /\ ~arriving
        \/ copy'.head = announced + 1 /\ arriving
    BY <2>2 DEF Orderly, Buffer, Types
  <2>5. \A n \in Nat : copy'.head = n /\ copy'.tail = n => copy' = Whole(n)
    BY <2>1 DEF HalfLines, Whole
  <2>6. Running'
    <3>1. deinit # "done" => /\ Extra = 0 /\ sema.count = 0 /\ ~arriving
                             /\ announced = Len(executed) + 1
      BY <2>3 DEF Extra, Types
    <3>2. deinit # "done" => copy' = Whole(Len(executed) + 1)
      BY <2>2, <2>3, <2>4, <2>5, <3>1
    <3> QED BY <2>1, <2>3, <3>1, <3>2 DEF Running, AllWhole
  <2>7. Copied'
    <3>1. deinit = "done" => exit
      BY DEF Life
    <3>2. announced = Len(executed) + 1 \/ (announced = Len(executed) /\ deinit = "done")
      BY <2>3 DEF Extra, Types
    <3>3. announced = Len(executed) + 1 => ~arriving
      BY <2>3 DEF Extra, Types
    <3> QED BY <2>1, <2>2, <2>3, <2>4, <2>5, <3>1, <3>2, <3>3 DEF Copied, AllWhole
  <2>8. Serving' /\ Buffer' /\ Runs'
    BY <2>1, <2>3 DEF Orderly, Serving, Buffer, Runs, AllWhole
  <2> QED BY <2>6, <2>7, <2>8 DEF Orderly
<1> QED BY <1>1, <1>2

LEMMA OrderRun == Types /\ Life /\ Orderly /\ at_cmd_hdl => Orderly'
<1> SUFFICES ASSUME Types, Life, Orderly, at_cmd_hdl PROVE Orderly'
  OBVIOUS
<1>1. /\ pc = "run" /\ pc' \in {"exit", "stuck"} /\ executed' = Append(executed, copy)
      /\ UNCHANGED <<rxbuf, announced, arriving, sema, copy, exit, deinit>>
  BY DEF at_cmd_hdl, isrvars, deinitvars
<1> DEFINE n == Len(executed)
<1>2. /\ n \in Nat /\ Len(executed') = n + 1 /\ DOMAIN executed' = 1..n+1
      /\ DOMAIN executed = 1..n
      /\ \A i \in 1..n : executed'[i] = executed[i]
      /\ executed'[n + 1] = copy
  BY <1>1 DEF Types
<1>3. AllWhole /\ (copy = Whole(n + 1) \/ (exit /\ copy.tail = n))
  BY <1>1 DEF Orderly, Copied
<1> HIDE DEF n
<1>4. Runs'
  <2> SUFFICES ASSUME NEW i \in 1..n+1
               PROVE  \/ executed'[i] = Whole(i)
                      \/ exit /\ i = n + 1 /\ executed'[i].tail = i - 1
    BY <1>1, <1>2 DEF Runs
  <2>1. CASE i \in 1..n
    BY <1>2, <1>3, <2>1 DEF AllWhole
  <2>2. CASE i = n + 1
    BY <1>2, <1>3, <2>2
  <2> QED BY <1>2, <2>1, <2>2
<1>5. Running'
  <2>1. deinit # "done" => /\ copy = Whole(n + 1) /\ n + 1 + sema.count = announced
                           /\ sema.count <= 1 /\ (arriving => sema.count = 0)
    BY <1>1 DEF Orderly, Running, n
  <2>2. deinit # "done" => AllWhole'
    <3> SUFFICES ASSUME deinit # "done", NEW i \in 1..n+1
                 PROVE  executed'[i] = Whole(i)
      BY <1>2 DEF AllWhole
    <3> QED BY <1>2, <1>3, <2>1 DEF AllWhole
  <2> QED BY <1>1, <1>2, <2>1, <2>2 DEF Running
<1>6. Serving' /\ Copied' /\ Buffer'
  BY <1>1 DEF Orderly, Serving, Copied, Buffer
<1> QED BY <1>4, <1>5, <1>6 DEF Orderly

LEMMA OrderExit == Types /\ Life /\ Orderly /\ CheckExit => Orderly'
<1> SUFFICES ASSUME Types, Life, Orderly, CheckExit PROVE Orderly'
  OBVIOUS
<1>1. /\ pc = "exit" /\ pc' = IF exit THEN "base" ELSE "wait"
      /\ UNCHANGED <<rxbuf, announced, arriving, sema, copy, executed, exit, deinit>>
  BY DEF CheckExit, isrvars, deinitvars
<1>2. CASE exit
  BY <1>1, <1>2 DEF Orderly, Serving, Running, Copied, Buffer, Runs, Ending
<1>3. CASE ~exit
  <2>1. deinit = "no" /\ pc' = "wait"
    BY <1>1, <1>3 DEF Life, Types
  <2> QED
    BY <1>1, <2>1 DEF Orderly, Serving, Running, Copied, Buffer, Runs, AllWhole,
       Taking, Extra, Types, Ending
<1> QED BY <1>2, <1>3

LEMMA OrderEnd ==
  ASSUME Types, Orderly,
         at_base_deinit \/ at_test_deinit \/ at_unreg_loguart \/ wl_free_sema
  PROVE  Orderly'
  BY DEF at_base_deinit, at_test_deinit, at_unreg_loguart, wl_free_sema, isrvars, deinitvars,
         Orderly, Serving, Running, Copied, Buffer, Runs, Ending

LEMMA StepOrderly ==
  Types /\ Life /\ (~hurried => Orderly) /\ [Next]_vars => (~hurried' => Orderly')
<1> SUFFICES ASSUME Types, Life, ~hurried => Orderly, [Next]_vars, ~hurried'
             PROVE  Orderly'
  OBVIOUS
<1>1. Orderly
  <2>1. CASE LineBegins
    BY <2>1 DEF LineBegins
  <2>2. CASE ~LineBegins
    <3>1. UNCHANGED hurried
      BY <2>2 DEF Next, loguart_hdl_recv, at_hdl_int, wl_init_sema,
                  at_reg_loguart, wl_init_list, at_base_init, at_test_init, wl_create_thread,
                  DeinitAsks, DeinitGives, AppAdds, AppRemoves, at_task,
                  wl_wait_sema, CopyHead, CopyTail, at_cmd_hdl, CheckExit,
                  at_base_deinit, at_test_deinit, at_unreg_loguart, wl_free_sema, vars
    <3> QED BY <3>1
  <2> QED BY <2>1, <2>2
<1>2. CASE LineBegins
  BY <1>1, <1>2, OrderLineBegins
<1>3. CASE loguart_hdl_recv
  BY <1>1, <1>3, OrderRecv
<1>4. CASE at_hdl_int
  BY <1>1, <1>4, OrderInit
<1>5. CASE DeinitAsks \/ DeinitGives
  BY <1>1, <1>5, OrderDeinit
<1>6. CASE at_task
  BY <1>1, <1>6, OrderTake, OrderCopy, OrderRun, OrderExit, OrderEnd DEF at_task
<1>7. CASE AppAdds \/ AppRemoves \/ UNCHANGED vars
  <2>1. UNCHANGED OrderVars
    BY <1>7 DEF AppAdds, AppRemoves, vars, OrderVars, isrvars, taskvars, deinitvars
  <2> QED BY <1>1, <2>1, SameOrder
<1> QED BY <1>2, <1>3, <1>4, <1>5, <1>6, <1>7 DEF Next

-----------------------------------------------------------------------------
(* What is left to be run.                                                 *)
LEMMA StepCounted == Types /\ Life /\ Counted /\ [Next]_vars => Counted'
<1> SUFFICES ASSUME Types, Life, Counted, [Next]_vars, pc' # "gone"
             PROVE  Counted'
  BY DEF Counted
<1>0. Len(executed) \in Nat /\ sema.count \in Nat /\ announced \in Nat
  BY DEF Types
<1> USE DEF Counted, Busy, Extra
<1>1. CASE LineBegins
  BY <1>1 DEF LineBegins, taskvars, deinitvars
<1>2. CASE loguart_hdl_recv
  <2>1. /\ pc # "gone" /\ sema'.count = sema.count + 1 /\ announced' = announced + 1
        /\ UNCHANGED <<pc, executed, deinit>>
    BY <1>2 DEF loguart_hdl_recv, Life, Give, Types, taskvars
  <2> QED BY <1>0, <2>1
<1>3. CASE at_hdl_int
  <2>1. pc = "none" /\ UNCHANGED <<announced, executed, deinit>>
        /\ pc' \in {"none", "wait", "failed"} /\ sema'.count = sema.count
    BY <1>3 DEF at_hdl_int, wl_init_sema, at_reg_loguart, wl_init_list, at_base_init,
                at_test_init, wl_create_thread, Life, isrvars, taskvars, deinitvars
  <2> QED BY <1>0, <2>1
<1>4. CASE DeinitAsks
  BY <1>4 DEF DeinitAsks, isrvars, taskvars
<1>5. CASE DeinitGives
  <2>1. /\ deinit = "give" /\ deinit' = "done" /\ UNCHANGED <<announced, pc, executed>>
    BY <1>5 DEF DeinitGives, isrvars, taskvars
  <2>2. sema'.count = sema.count + 1
    BY <1>5, <2>1 DEF DeinitGives, Give, Life, Types
  <2> QED BY <1>0, <2>1, <2>2
<1>6. CASE AppAdds \/ AppRemoves \/ UNCHANGED vars
  <2>1. UNCHANGED <<announced, sema, pc, executed, deinit>>
    BY <1>6 DEF AppAdds, AppRemoves, vars, isrvars, taskvars, deinitvars
  <2> QED BY <2>1
<1>7. CASE wl_wait_sema
  <2>1. /\ pc = "wait" /\ pc' = "head" /\ sema'.count = sema.count - 1
        /\ UNCHANGED <<announced, executed, deinit>>
    BY <1>7 DEF wl_wait_sema, Types, isrvars, deinitvars
  <2> QED BY <1>0, <2>1
<1>8. CASE CopyHead \/ CopyTail
  <2>1. /\ pc \in {"head", "tail"} /\ pc' \in {"tail", "run"}
        /\ UNCHANGED <<announced, sema, executed, deinit>>
    BY <1>8 DEF CopyHead, CopyTail, isrvars, deinitvars
  <2> QED BY <2>1
<1>9. CASE at_cmd_hdl
  <2>1. /\ pc = "run" /\ pc' \in {"exit", "stuck"} /\ executed' = Append(executed, copy)
        /\ UNCHANGED <<announced, sema, deinit>>
    BY <1>9 DEF at_cmd_hdl, isrvars, deinitvars
  <2>2. Len(executed') = Len(executed) + 1
    BY <2>1 DEF Types
  <2> QED BY <1>0, <2>1, <2>2
<1>10. CASE CheckExit \/ at_base_deinit \/ at_test_deinit \/ at_unreg_loguart
  <2>1. /\ pc \in {"exit", "base", "test", "unreg"}
        /\ pc' \in {"wait", "base", "test", "unreg", "free"}
        /\ UNCHANGED <<announced, sema, executed, deinit>>
    BY <1>10 DEF CheckExit, at_base_deinit, at_test_deinit, at_unreg_loguart,
                 isrvars, deinitvars
  <2> QED BY <2>1
<1>11. CASE wl_free_sema
  BY <1>11 DEF wl_free_sema
<1> QED BY <1>1, <1>2, <1>3, <1>4, <1>5, <1>6, <1>7, <1>8, <1>9, <1>10, <1>11
           DEF Next, at_task

LEMMA StepWaited ==
  ASSUME Types, Life, Orderly, Waited, [Next]_vars, ~hurried'
  PROVE  Waited'
<1>0. /\ sema.count \in Nat /\ announced \in Nat
      /\ arriving => Taking + sema.count <= Extra
      /\ pc = "run" => copy.tail <= announced /\ copy.head \in {copy.tail, copy.tail + 1}
  BY DEF Types, Waited
<1> USE DEF Waited, Taking, Extra
<1>1. CASE LineBegins
  <2>1. ~(sema.count > 0) /\ pc \notin {"head", "tail"}
    BY <1>1 DEF LineBegins, Uncopied
  <2>2. UNCHANGED <<announced, sema, pc, copy, deinit>>
    BY <1>1 DEF LineBegins, taskvars, deinitvars
  <2> QED BY <1>0, <2>1, <2>2
<1>2. CASE loguart_hdl_recv
  <2>1. ~arriving' /\ announced' = announced + 1 /\ UNCHANGED <<pc, copy>>
    BY <1>2 DEF loguart_hdl_recv, taskvars
  <2>2. copy \in HalfLines
    BY DEF Types
  <2>3. copy.tail \in Nat
    BY <2>2 DEF HalfLines
  <2> QED BY <1>0, <2>1, <2>3
<1>3. CASE at_hdl_int
  <2>1. pc = "none" /\ UNCHANGED <<announced, arriving, deinit>>
        /\ pc' \in {"none", "wait", "failed"} /\ sema'.count = sema.count
    BY <1>3 DEF at_hdl_int, wl_init_sema, at_reg_loguart, wl_init_list, at_base_init,
                at_test_init, wl_create_thread, Life, isrvars, taskvars, deinitvars
  <2> QED BY <1>0, <2>1
<1>4. CASE DeinitAsks
  <2>1. /\ deinit = "no" /\ deinit' = "give"
        /\ UNCHANGED <<announced, arriving, sema, pc, copy>>
    BY <1>4 DEF DeinitAsks, isrvars, taskvars
  <2> QED BY <1>0, <2>1
<1>5. CASE DeinitGives
  <2>1. /\ deinit = "give" /\ deinit' = "done"
        /\ UNCHANGED <<announced, arriving, pc, copy>>
    BY <1>5 DEF DeinitGives, isrvars, taskvars
  <2>2. sema'.count \in {sema.count, sema.count + 1}
    BY <1>5 DEF DeinitGives, Give, Types
  <2> QED BY <1>0, <2>1, <2>2
<1>6. CASE AppAdds \/ AppRemoves \/ UNCHANGED vars
  <2>1. UNCHANGED <<announced, arriving, sema, pc, copy, deinit>>
    BY <1>6 DEF AppAdds, AppRemoves, vars, isrvars, taskvars, deinitvars
  <2> QED BY <1>0, <2>1
<1>7. CASE wl_wait_sema
  <2>1. /\ pc = "wait" /\ pc' = "head" /\ sema'.count = sema.count - 1
        /\ UNCHANGED <<announced, arriving, deinit>>
    BY <1>7 DEF wl_wait_sema, Types, isrvars, deinitvars
  <2> QED BY <1>0, <2>1
<1>8. CASE CopyHead
  <2>1. pc = "head" /\ pc' = "tail" /\ UNCHANGED <<announced, arriving, sema, deinit>>
    BY <1>8 DEF CopyHead, isrvars, deinitvars
  <2> QED BY <1>0, <2>1
<1>9. CASE CopyTail
  <2>1. /\ pc = "tail" /\ pc' = "run" /\ UNCHANGED <<announced, arriving, sema, deinit>>
        /\ copy'.head = copy.head /\ copy'.tail = rxbuf.tail
    BY <1>9 DEF CopyTail, Types, HalfLines, isrvars, deinitvars
  <2>2. /\ copy.head = rxbuf.head /\ rxbuf.tail = announced
        /\ rxbuf.head \in {announced, announced + 1}
    BY <1>0, <2>1 DEF Orderly, Copied, Buffer
  <2> QED BY <1>0, <2>1, <2>2
<1>10. CASE \/ at_cmd_hdl \/ CheckExit
            \/ at_base_deinit \/ at_test_deinit \/ at_unreg_loguart
  <2>1. /\ pc \notin {"head", "tail"} /\ pc' \notin {"head", "tail", "run"}
        /\ UNCHANGED <<announced, arriving, sema, deinit>>
    BY <1>10 DEF at_cmd_hdl, CheckExit, at_base_deinit, at_test_deinit, at_unreg_loguart,
                 isrvars, deinitvars
  <2> QED BY <1>0, <2>1
<1>11. CASE wl_free_sema
  <2>1. pc' = "gone" /\ sema'.count = 0 /\ Extra' = Extra
    BY <1>11 DEF wl_free_sema, deinitvars
  <2> QED BY <1>0, <2>1
<1> QED BY <1>1, <1>2, <1>3, <1>4, <1>5, <1>6, <1>7, <1>8, <1>9, <1>10, <1>11
           DEF Next, at_task

(* The inductive invariant holds in every run.                             *)
LEMMA Invariance == Spec => []IInv
<1>1. ASSUME IInv, [Next]_vars, ~hurried' PROVE ~hurried
  <2>1. CASE LineBegins
    BY <1>1, <2>1 DEF LineBegins
  <2>2. CASE ~LineBegins
    BY <1>1, <2>2 DEF Next, loguart_hdl_recv, at_hdl_int, wl_init_sema,
         at_reg_loguart, wl_init_list, at_base_init, at_test_init, wl_create_thread,
         DeinitAsks, DeinitGives, AppAdds, AppRemoves, at_task,
         wl_wait_sema, CopyHead, CopyTail, at_cmd_hdl, CheckExit,
         at_base_deinit, at_test_deinit, at_unreg_loguart, wl_free_sema, vars
  <2> QED BY <2>1, <2>2
<1>2. ASSUME IInv, [Next]_vars PROVE ~hurried' => Waited'
  BY <1>1, <1>2, StepWaited DEF IInv
<1>3. IInv /\ [Next]_vars => IInv'
  BY <1>2, StepTypes, StepLife, StepGiving, StepBuffer, StepListed, StepLatest,
     StepCounted, StepOrderly DEF IInv
<1> QED BY InitIInv, <1>3, PTL DEF Spec

-----------------------------------------------------------------------------
(* The interpreter is a queue of lines for a host that begins none before  *)
(* the last has been copied (at_cmd.c:234, 552, 648), and what the wake-up *)
(* of at_hdl_deinit has run is the buffer, once (at_cmd.c:280).            *)
LEMMA QueueCome ==
  ASSUME IInv, ~hurried, loguart_hdl_recv
  PROVE  Queue!Come
<1>1. /\ arriving /\ announced' = announced + 1
      /\ UNCHANGED <<executed, pc, exit, hurried>> /\ pc # "gone"
  BY DEF loguart_hdl_recv, taskvars, IInv, Life
<1>2. /\ Len(executed) + Busy + sema.count = announced + Extra
      /\ Taking + sema.count <= Extra
      /\ Len(executed) \in Nat /\ sema.count \in Nat /\ announced \in Nat
  BY <1>1 DEF IInv, Counted, Waited, Types
<1>3. announced < Len(executed) + 2
  BY <1>2 DEF Busy, Taking, Extra
<1> QED BY <1>1, <1>3 DEF Queue!Come

LEMMA QueueRun ==
  ASSUME IInv, ~hurried, at_cmd_hdl
  PROVE  Queue!Run \/ Queue!RunBuffer
<1>1. /\ pc = "run" /\ pc' \in {"exit", "stuck"} /\ executed' = Append(executed, copy)
      /\ UNCHANGED <<announced, exit, hurried>>
  BY DEF at_cmd_hdl, isrvars
<1>2. /\ copy \in HalfLines /\ Len(executed) \in Nat
      /\ copy.tail <= announced /\ copy.head \in {copy.tail, copy.tail + 1}
      /\ \/ copy = Whole(Len(executed) + 1)
         \/ exit /\ copy.tail = Len(executed)
  <2>1. Types /\ Waited /\ Copied
    BY DEF IInv, Orderly
  <2> QED BY <1>1, <2>1 DEF Types, Waited, Copied
<1>3. CASE copy = Whole(Len(executed) + 1)
  <2>1. copy.tail = Len(executed) + 1 /\ announced \in Nat
    BY <1>3 DEF Whole, IInv, Types
  <2>2. Len(executed) < announced
    BY <1>2, <2>1
  <2>3. executed' = Append(executed, Queue!Line(Len(executed) + 1))
    BY <1>1, <1>3 DEF Whole, Queue!Line
  <2>4. Queue!Run
    BY <1>1, <2>2, <2>3 DEF Queue!Run, Queue!Ends
  <2> QED BY <2>4
<1>4. CASE exit /\ copy.tail = Len(executed)
  <2>1. copy = [head |-> copy.head, tail |-> Len(executed)]
    BY <1>2, <1>4 DEF HalfLines
  <2>2. \E n \in {Len(executed), Len(executed) + 1} :
           executed' = Append(executed, [head |-> n, tail |-> Len(executed)])
    BY <1>1, <1>2, <1>4, <2>1
  <2>3. Queue!RunBuffer
    BY <1>1, <1>4, <2>2 DEF Queue!RunBuffer, Queue!Ends
  <2> QED BY <2>3
<1> QED BY <1>2, <1>3, <1>4

LEMMA QueueStep ==
  ASSUME IInv, ~hurried, [Next]_vars
  PROVE  Queue!QNext \/ UNCHANGED Queue!qvars
<1>1. CASE LineBegins
  <2>1. UNCHANGED <<announced, executed, pc, exit>> /\ hurried' \in BOOLEAN
    BY <1>1 DEF LineBegins, taskvars, Uncopied
  <2>2. CASE hurried'
    BY <2>1, <2>2 DEF Queue!QNext, Queue!Hurry
  <2>3. CASE ~hurried'
    BY <2>1, <2>3 DEF Queue!qvars
  <2> QED BY <2>2, <2>3
<1>2. CASE loguart_hdl_recv
  BY <1>2, QueueCome DEF Queue!QNext
<1>3. CASE at_cmd_hdl
  BY <1>3, QueueRun DEF Queue!QNext
<1>4. CASE DeinitAsks
  <2>1. UNCHANGED <<announced, executed, pc, hurried>> /\ ~exit /\ exit'
    BY <1>4 DEF DeinitAsks, isrvars, taskvars, IInv, Life
  <2> QED BY <2>1 DEF Queue!QNext, Queue!AskToEnd
<1>5. CASE at_hdl_int
  <2>1. UNCHANGED <<announced, executed, hurried>> /\ ~exit /\ ~exit'
    BY <1>5 DEF at_hdl_int, wl_init_sema, at_reg_loguart, wl_init_list, at_base_init,
                at_test_init, wl_create_thread, isrvars, taskvars, IInv, Life
  <2> QED BY <2>1 DEF Queue!qvars
<1>6. CASE CheckExit
  <2>1. /\ pc = "exit" /\ pc' = IF exit THEN "base" ELSE "wait"
        /\ UNCHANGED <<announced, executed, exit, hurried>>
    BY <1>6 DEF CheckExit, isrvars
  <2> QED BY <2>1 DEF Queue!qvars
<1>7. CASE at_base_deinit \/ at_test_deinit \/ at_unreg_loguart \/ wl_free_sema
  <2>1. /\ pc \in {"base", "test", "unreg", "free"}
        /\ pc' \in {"test", "unreg", "free", "gone"}
        /\ UNCHANGED <<announced, executed, exit, hurried>>
    BY <1>7 DEF at_base_deinit, at_test_deinit, at_unreg_loguart, wl_free_sema, isrvars
  <2> QED BY <2>1 DEF Queue!qvars
<1>8. CASE wl_wait_sema \/ CopyHead \/ CopyTail
  <2>1. /\ pc \in {"wait", "head", "tail"} /\ pc' \in {"head", "tail", "run"}
        /\ UNCHANGED <<announced, executed, exit, hurried>>
    BY <1>8 DEF wl_wait_sema, CopyHead, CopyTail, isrvars
  <2> QED BY <2>1 DEF Queue!qvars
<1>9. CASE DeinitGives \/ AppAdds \/ AppRemoves \/ UNCHANGED vars
  <2>1. UNCHANGED <<announced, executed, pc, exit, hurried>>
    BY <1>9 DEF DeinitGives, AppAdds, AppRemoves, vars, isrvars, taskvars
  <2> QED BY <2>1 DEF Queue!qvars
<1> QED BY <1>1, <1>2, <1>3, <1>4, <1>5, <1>6, <1>7, <1>8, <1>9 DEF Next, at_task

THEOREM InterpreterIsAQueue == Spec => ImplementsQueue
<1>1. Init => Queue!QInit
  BY DEF Init, Queue!QInit
<1>2. ASSUME IInv, [Next]_vars
      PROVE  Queue!QNext \/ UNCHANGED Queue!qvars
  <2>1. CASE ~hurried
    BY <1>2, <2>1, QueueStep
  <2>2. CASE hurried
    <3>1. hurried'
      <4>1. CASE LineBegins
        BY <2>2, <4>1 DEF LineBegins
      <4>2. CASE ~LineBegins
        BY <1>2, <2>2, <4>2 DEF Next, loguart_hdl_recv, at_hdl_int, wl_init_sema,
             at_reg_loguart, wl_init_list, at_base_init, at_test_init, wl_create_thread,
             DeinitAsks, DeinitGives, AppAdds, AppRemoves, at_task,
             wl_wait_sema, CopyHead, CopyTail, at_cmd_hdl, CheckExit,
             at_base_deinit, at_test_deinit, at_unreg_loguart, wl_free_sema, vars
      <4> QED BY <4>1, <4>2
    <3> QED BY <2>2, <3>1 DEF Queue!qvars
  <2> QED BY <2>1, <2>2
<1>3. IInv /\ [Next]_vars => [Queue!QNext]_(Queue!qvars)
  BY <1>2
<1> QED BY Invariance, <1>1, <1>3, PTL DEF Spec, ImplementsQueue, Queue!QSpec

(* However much the host hurries, once the interpreter is at rest its last *)
(* line has been run, whole, and as often as lines came something was run. *)
THEOREM LastLineIsRun == Spec => []LastLineRuns
<1>1. ASSUME IInv, Idle, ~exit, announced > 0
      PROVE  Len(executed) = announced /\ Last(executed) = Whole(announced)
  <2>1. Len(executed) = announced
    BY <1>1 DEF IInv, Types, Latest, Idle, Busy
  <2>2. executed[Len(executed)] = Whole(announced)
    BY <1>1 DEF IInv, Types, Latest, Idle
  <2> QED BY <2>1, <2>2 DEF Last
<1>2. IInv => LastLineRuns
  BY <1>1 DEF LastLineRuns
<1> QED BY Invariance, <1>2, PTL

(* While the task serves it finds every command that is added, whatever    *)
(* tables an application adds and removes in whatever order, and no other  *)
(* than the leftovers of a removed table (at_cmd.c:471-481).               *)
THEOREM CommandsAreFound == Spec => []FindsWhatWasAdded
<1>1. ASSUME IInv, pc \in {"wait", "head", "tail", "run"}, ~again
      PROVE  Added \subseteq Range(tbl) /\ Range(tbl) \subseteq Added \union Remains
  <2>1. init = "done" /\ pc \notin Ending
    BY <1>1 DEF IInv, Life, Ending
  <2>2. Added = AddedSoFar
    BY <2>1 DEF Added, AddedSoFar, BuiltInSoFar, BuiltIn
  <2> QED BY <1>1, <2>1, <2>2 DEF IInv, Listed
<1>2. IInv => FindsWhatWasAdded
  BY <1>1 DEF FindsWhatWasAdded
<1> QED BY Invariance, <1>2, PTL

(* Neither the interrupt nor a deinit of an idle task gives a semaphore    *)
(* that is not there (at_cmd.c:267, 663-664).                              *)
THEOREM SemaphoreIsThere == Spec => []GivesWhatIsThere
<1>1. IInv => GivesWhatIsThere
  BY DEF IInv, Giving
<1> QED BY Invariance, <1>1, PTL
=============================================================================
