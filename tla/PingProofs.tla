----------------------------- MODULE PingProofs -----------------------------
(***************************************************************************)
(* The safety of the ping service, for any number of pings, any counts and *)
(* any width of the counters.                                              *)
(***************************************************************************)
EXTENDS Ping, TLAPS

(* Where the threads are: those not yet started nowhere, the old ones past *)
(* the flag, and only the last one may send, with the flag up.             *)
Threads ==
  /\ \A k \in Pings : k > started => pc[k] = "none"
  /\ \A k \in Pings : k < started => pc[k] \in {"wake", "gone"}
  /\ \A k \in Pings : k = started => pc[k] # "none"
  /\ \A k \in Pings : Sending(k) => k = started /\ is_ping_ongoing = 1
  /\ is_ping_ongoing = 1 => started # 0
  /\ caller = "waiting" => started # 0

(* While no start has been hasty: the old threads are gone, nothing has    *)
(* been misused, and of the last ping, a raised wake and a freed semaphore *)
(* both mean that its thread is gone and the flag down.                    *)
Calm ==
  /\ ~misused
  /\ \A k \in Pings : k < started => pc[k] = "gone"
  /\ \A k \in Pings : k > started => stop_sema[k] = "none" /\ wake_sema[k] = "none"
  /\ \A k \in Pings : pc[k] = "wake" => is_ping_ongoing = 0
  /\ \A k \in Pings : wake_sema[k] = "freed" => stop_sema[k] = "freed"
  /\ \A k \in Pings :
       wake_sema[k] = "full" \/ stop_sema[k] = "freed" =>
         pc[k] = "gone" /\ (k = started => is_ping_ongoing = 0)

(* What is left of a count: all of it before the first pause has passed,   *)
(* one of an endless ping, less than all and not nothing of another.       *)
Counting ==
  /\ \A k \in Pings : k > started => first[k]
  /\ \A k \in Pings : pc[k] \in {"open", "send", "pause"} =>
       IF first[k] THEN residual_count[k] = count[k]
       ELSE IF count[k] = 0 THEN residual_count[k] = 1
       ELSE residual_count[k] # 0 /\ residual_count[k] < count[k]
  /\ ZeroOnlyAtFirst

IInv == TypeOK /\ Threads /\ Counting /\ (~hasty => Calm)

-----------------------------------------------------------------------------
LEMMA InitIInv == Init => IInv
<1> SUFFICES ASSUME Init PROVE IInv
  OBVIOUS
<1> USE PingAssumption DEF Init
<1>1. TypeOK
  <2>1. 0 \in 0..Word-1 /\ started \in 0..Starts /\ handle = started
    OBVIOUS
  <2>2. /\ stop_sema \in [Pings -> SemaStates]
        /\ wake_sema \in [Pings -> SemaStates] /\ pc \in [Pings -> Places]
    BY DEF SemaStates, Places
  <2>3. /\ count \in [Pings -> 0..Word-1]
        /\ residual_count \in [Pings -> 0..Word-1]
    BY <2>1
  <2>4. /\ failed \in [Pings -> BOOLEAN] /\ first \in [Pings -> BOOLEAN]
        /\ hasty \in BOOLEAN /\ misused \in BOOLEAN
    OBVIOUS
  <2> QED BY <2>1, <2>2, <2>3, <2>4 DEF TypeOK
<1>2. Threads
  BY DEF Threads, Sending, Pings
<1>3. Counting
  BY DEF Counting, ZeroOnlyAtFirst
<1>4. Calm
  BY DEF Calm, Pings
<1> QED BY <1>1, <1>2, <1>3, <1>4 DEF IInv

(* The subtraction of the counters is of words.                            *)
LEMMA WordMinus ==
  ASSUME NEW a \in 0..Word-1, NEW b \in 0..Word-1
  PROVE  /\ (a + Word - b) % Word \in 0..Word-1
         /\ (a + Word - b) % Word = 0 => a = b
  BY PingAssumption

LEMMA StepType ==
  ASSUME TypeOK, Threads, Counting, Next
  PROVE TypeOK'
<1> USE PingAssumption DEF TypeOK, Pings, Places, SemaStates
<1>1. ASSUME NEW n \in Counts, ping_init(n) PROVE TypeOK'
  <2>1. n \in 0..Word-1
    BY <1>1
  <2>2. /\ started' \in 0..Starts /\ handle' = started'
        /\ is_ping_ongoing' \in {0, 1} /\ caller' \in {"ready", "waiting"}
    BY <1>1 DEF ping_init
  <2>3. /\ stop_sema' \in [Pings -> SemaStates]
        /\ wake_sema' \in [Pings -> SemaStates]
    BY <1>1 DEF ping_init
  <2>4. /\ count' \in [Pings -> 0..Word-1]
        /\ residual_count' \in [Pings -> 0..Word-1]
    BY <1>1, <2>1 DEF ping_init
  <2>5. /\ pc' \in [Pings -> Places] /\ failed' \in [Pings -> BOOLEAN]
    BY <1>1 DEF ping_init
  <2>6. /\ first' \in [Pings -> BOOLEAN] /\ hasty' \in BOOLEAN
        /\ misused' \in BOOLEAN
    BY <1>1 DEF ping_init
  <2> QED BY <2>2, <2>3, <2>4, <2>5, <2>6
<1>2. CASE StopAsks
  BY <1>2 DEF StopAsks
<1>3. CASE StopReturns
  BY <1>3 DEF StopReturns
<1>4. ASSUME NEW k \in Pings, Thread(k) PROVE TypeOK'
  <2>1. CASE Open(k)
    BY <2>1 DEF Open
  <2>2. CASE SendAndReceive(k)
    BY <2>2 DEF SendAndReceive
  <2>3. CASE Pause(k)
    <3> DEFINE rest == (count[k] + Word - residual_count[k]) % Word
    <3>1. /\ count[k] \in 0..Word-1 /\ residual_count[k] \in 0..Word-1
          /\ pc[k] = "pause"
      BY <2>3 DEF Pause
    <3>2. count[k] # 0 => residual_count[k] # 0
      BY <3>1 DEF Counting
    <3>3. Left(k) \in 0..Word-1
      BY <3>1, <3>2 DEF Left
    <3>4. rest \in 0..Word-1
      BY <3>1, WordMinus
    <3> HIDE DEF rest
    <3>5. stop_sema' \in [Pings -> SemaStates]
      <4>1. \/ stop_sema' = stop_sema
            \/ stop_sema' = [stop_sema EXCEPT ![handle] = "empty"]
        BY <2>3 DEF Pause
      <4> QED BY <4>1
    <3>6. count' \in [Pings -> 0..Word-1]
      <4>1. count' = count \/ count' = [count EXCEPT ![k] = rest]
        BY <2>3 DEF Pause, rest
      <4> QED BY <3>4, <4>1
    <3>7. residual_count' \in [Pings -> 0..Word-1]
      BY <2>3, <3>3 DEF Pause
    <3>8. pc' \in [Pings -> Places]
      <4>1. \/ pc' = [pc EXCEPT ![k] = "report"]
            \/ pc' = [pc EXCEPT ![k] = IF Left(k) > 0 THEN "send" ELSE "report"]
            \/ pc' = [pc EXCEPT ![k] = "gone"]
        BY ONLY <2>3, Zenon DEF Pause
      <4>2. pc \in [Pings -> Places]
        OBVIOUS
      <4> QED BY ONLY <4>1, <4>2 DEF Places
    <3>9. /\ UNCHANGED <<is_ping_ongoing, started, handle, wake_sema, caller,
                         failed, hasty>>
          /\ first' \in [Pings -> BOOLEAN] /\ misused' \in BOOLEAN
      BY <2>3 DEF Pause
    <3> QED BY <3>5, <3>6, <3>7, <3>8, <3>9
  <2>4. CASE Report(k)
    BY <2>4 DEF Report
  <2>5. CASE ClearFlag(k)
    BY <2>5 DEF ClearFlag
  <2>6. CASE WakeAndDie(k)
    BY <2>6 DEF WakeAndDie
  <2> QED BY <1>4, <2>1, <2>2, <2>3, <2>4, <2>5, <2>6 DEF Thread
<1> QED BY <1>1, <1>2, <1>3, <1>4 DEF Next

LEMMA StepThreads ==
  ASSUME TypeOK, Threads, Next
  PROVE Threads'
<1> USE PingAssumption DEF TypeOK, Threads, Sending, Pings, Places
<1>1. ASSUME NEW n \in Counts, ping_init(n) PROVE Threads'
  <2>1. /\ started' = started + 1 /\ started + 1 \in Pings
        /\ is_ping_ongoing = 0 /\ is_ping_ongoing' = 1
        /\ caller' = caller
    BY <1>1 DEF ping_init
  <2>2. /\ pc'[started'] \in {"open", "gone"}
        /\ \A k \in Pings : k # started' => pc'[k] = pc[k]
    BY <1>1, <2>1 DEF ping_init
  <2>3. \A k \in Pings : k # started' => ~Sending(k)'
    BY <2>1, <2>2, SMTT(20)
  <2>4. \A k \in Pings : k < started' => pc'[k] \in {"wake", "gone"}
    <3> SUFFICES ASSUME NEW k \in Pings, k < started'
                 PROVE pc'[k] \in {"wake", "gone"}
      OBVIOUS
    <3>1. pc'[k] = pc[k] /\ k <= started
      BY <2>1, <2>2
    <3>2. CASE k < started
      BY <3>1, <3>2
    <3>3. CASE k = started
      BY <2>1, <3>1, <3>3
    <3> QED BY <3>1, <3>2, <3>3
  <2>5. \A k \in Pings : k > started' => pc'[k] = "none"
    BY <2>1, <2>2, SMTT(20)
  <2> QED BY <2>1, <2>2, <2>3, <2>4, <2>5, SMTT(20)
<1>2. CASE StopAsks
  BY <1>2 DEF StopAsks
<1>3. CASE StopReturns
  BY <1>3 DEF StopReturns
<1>4. ASSUME NEW k \in Pings, Thread(k) PROVE Threads'
  <2>1. CASE Open(k)
    <3>1. /\ k = started /\ is_ping_ongoing = 1 /\ started' = started /\ caller' = caller
          /\ pc[k] = "open"
      BY <2>1 DEF Open
    <3>2. \/ pc' = [pc EXCEPT ![k] = "send"] /\ is_ping_ongoing' = is_ping_ongoing
          \/ pc' = [pc EXCEPT ![k] = "gone"] /\ is_ping_ongoing' = 0
      BY <2>1, Zenon DEF Open
    <3>3. /\ pc'[k] \in {"send", "gone"}
          /\ \A n \in Pings : n # k => pc'[n] = pc[n]
          /\ pc'[k] = "send" => is_ping_ongoing' = 1
      BY <3>1, <3>2
    <3>4. \A n \in Pings : Sending(n)' => n = started' /\ is_ping_ongoing' = 1
      BY <3>1, <3>3
    <3> QED BY <3>1, <3>2, <3>3, <3>4
  <2>2. CASE SendAndReceive(k)
    BY <2>2 DEF SendAndReceive
  <2>3. CASE Pause(k)
    BY <2>3 DEF Pause
  <2>4. CASE Report(k)
    BY <2>4 DEF Report
  <2>5. CASE ClearFlag(k)
    BY <2>5 DEF ClearFlag
  <2>6. CASE WakeAndDie(k)
    BY <2>6 DEF WakeAndDie
  <2> QED BY <1>4, <2>1, <2>2, <2>3, <2>4, <2>5, <2>6 DEF Thread
<1> QED BY <1>1, <1>2, <1>3, <1>4 DEF Next

LEMMA StepCounting ==
  ASSUME TypeOK, Threads, Counting, Next
  PROVE Counting'
<1> USE PingAssumption DEF TypeOK, Counting, ZeroOnlyAtFirst, Pings
<1>1. ASSUME NEW n \in Counts, ping_init(n) PROVE Counting'
  BY <1>1, SMTT(20) DEF ping_init
<1>2. CASE StopAsks
  BY <1>2 DEF StopAsks
<1>3. CASE StopReturns
  BY <1>3 DEF StopReturns
<1>4. ASSUME NEW k \in Pings, Thread(k) PROVE Counting'
  <2>1. CASE Open(k)
    BY <2>1 DEF Open
  <2>2. CASE SendAndReceive(k)
    BY <2>2 DEF SendAndReceive
  <2>3. CASE Pause(k)
    <3> DEFINE rest == (count[k] + Word - residual_count[k]) % Word
    <3>1. rest = 0 => first[k]
      <4>1. rest = 0 => count[k] = residual_count[k]
        BY WordMinus
      <4> QED BY <2>3, <4>1 DEF Pause
    <3>2. k <= started
      BY <2>3 DEF Pause, Threads
    <3> HIDE DEF rest
    <3>3. CASE /\ count' = [count EXCEPT ![k] = rest]
               /\ pc' = [pc EXCEPT ![k] = "report"]
               /\ UNCHANGED <<started, residual_count, first>>
      BY <3>1, <3>3
    <3>4. CASE /\ residual_count' = [residual_count EXCEPT ![k] = Left(k)]
               /\ first' = [first EXCEPT ![k] = FALSE]
               /\ pc' = [pc EXCEPT ![k] =
                           IF Left(k) > 0 THEN "send" ELSE "report"]
               /\ UNCHANGED <<started, count>>
      <4>1. pc[k] = "pause"
        BY <2>3 DEF Pause
      <4> QED BY <3>2, <3>4, <4>1, SMTT(20) DEF Left
    <3>5. CASE /\ pc' = [pc EXCEPT ![k] = "gone"]
               /\ UNCHANGED <<started, count, residual_count, first>>
      BY <3>5
    <3> QED BY <2>3, <3>3, <3>4, <3>5 DEF Pause, rest
  <2>4. CASE Report(k)
    BY <2>4 DEF Report
  <2>5. CASE ClearFlag(k)
    BY <2>5 DEF ClearFlag
  <2>6. CASE WakeAndDie(k)
    BY <2>6 DEF WakeAndDie
  <2> QED BY <1>4, <2>1, <2>2, <2>3, <2>4, <2>5, <2>6 DEF Thread
<1> QED BY <1>1, <1>2, <1>3, <1>4 DEF Next

LEMMA StepCalm ==
  ASSUME TypeOK, Threads, ~hasty => Calm, Next
  PROVE ~hasty' => Calm'
<1> SUFFICES ASSUME ~hasty' PROVE Calm'
  OBVIOUS
<1>0. Calm
  BY DEF Next, Thread, ping_init, StopAsks, StopReturns, Open, SendAndReceive,
         Pause, Report, ClearFlag, WakeAndDie, TypeOK
<1> USE PingAssumption, <1>0 DEF TypeOK, Threads, Sending, Calm, Pings
<1>1. ASSUME NEW n \in Counts, ping_init(n) PROVE Calm'
  <2>1. /\ started' = started + 1 /\ started + 1 \in Pings
        /\ is_ping_ongoing = 0 /\ misused' = misused
    BY <1>1 DEF ping_init
  <2>0. \A k \in Pings : pc[k] # "wake"
    <3>1. hasty' = (hasty \/ \E k \in Pings : pc[k] = "wake")
      BY <1>1 DEF ping_init
    <3>2. ~hasty'
      OBVIOUS
    <3> QED BY ONLY <3>1, <3>2, Zenon
  <2>2. /\ pc'[started'] \in {"open", "gone"}
        /\ \A k \in Pings : k # started' => pc'[k] = pc[k]
    BY <1>1, <2>1 DEF ping_init
  <2>3. /\ stop_sema'[started'] = "empty" /\ wake_sema'[started'] = "empty"
        /\ \A k \in Pings : k # started' => /\ stop_sema'[k] = stop_sema[k]
                                            /\ wake_sema'[k] = wake_sema[k]
    BY <1>1, <2>1 DEF ping_init
  <2>4. \A k \in Pings : k < started' => pc'[k] = "gone"
    <3> SUFFICES ASSUME NEW k \in Pings, k < started' PROVE pc'[k] = "gone"
      OBVIOUS
    <3>1. pc'[k] = pc[k] /\ k <= started
      BY <2>1, <2>2
    <3>2. CASE k < started
      BY <3>1, <3>2
    <3>3. CASE k = started
      BY <2>1, <2>0, <3>1, <3>3 DEF Places
    <3> QED BY <3>1, <3>2, <3>3
  <2>5. \A k \in Pings : pc'[k] = "wake" => is_ping_ongoing' = 0
    BY <2>1, <2>2, <2>0
  <2>6. \A k \in Pings : wake_sema'[k] = "freed" => stop_sema'[k] = "freed"
    <3>1. \A k \in Pings : wake_sema[k] = "freed" => stop_sema[k] = "freed"
      OBVIOUS
    <3> QED BY ONLY <2>3, <3>1
  <2>7. \A k \in Pings :
          wake_sema'[k] = "full" \/ stop_sema'[k] = "freed" =>
            pc'[k] = "gone" /\ k # started'
    BY <2>2, <2>3, SMTT(20)
  <2>8. \A k \in Pings : k > started' =>
          stop_sema'[k] = "none" /\ wake_sema'[k] = "none"
    <3>1. \A k \in Pings : k > started =>
            stop_sema[k] = "none" /\ wake_sema[k] = "none"
      OBVIOUS
    <3>2. started \in Int /\ Pings \subseteq Int
      OBVIOUS
    <3> QED BY ONLY <2>1, <2>3, <3>1, <3>2
  <2> QED BY <2>1, <2>4, <2>5, <2>6, <2>7, <2>8
<1>2. CASE StopAsks
  BY <1>2, SMTT(20) DEF StopAsks, SemaStates
<1>3. CASE StopReturns
  BY <1>3 DEF StopReturns
<1>4. ASSUME NEW k \in Pings, Thread(k) PROVE Calm'
  <2>1. CASE Open(k)
    BY <2>1, SMTT(20) DEF Open
  <2>2. CASE SendAndReceive(k)
    BY <2>2 DEF SendAndReceive
  <2>3. CASE Pause(k)
    <3>1. k = started /\ pc[k] = "pause" /\ stop_sema[k] # "freed"
      BY <2>3 DEF Pause
    <3>2. /\ \A j \in Pings : j # k => pc'[j] = pc[j]
          /\ pc'[k] \in {"send", "report"}
          /\ UNCHANGED <<started, is_ping_ongoing, wake_sema, misused>>
      BY <2>3, <3>1 DEF Pause
    <3>3. \A j \in Pings : stop_sema'[j] = stop_sema[j]
                             \/ (j = k /\ stop_sema'[j] = "empty")
      <4>1. handle = k
        BY <3>1
      <4>2. \/ stop_sema' = stop_sema
            \/ stop_sema' = [stop_sema EXCEPT ![k] = "empty"]
        BY <2>3, <4>1 DEF Pause
      <4> QED BY <4>2
    <3>4. wake_sema[k] # "freed" /\ wake_sema[k] # "full"
      BY <3>1
    <3> QED BY <3>1, <3>2, <3>3, <3>4, SMTT(20)
  <2>4. CASE Report(k)
    BY <2>4 DEF Report
  <2>5. CASE ClearFlag(k)
    BY <2>5 DEF ClearFlag
  <2>6. CASE WakeAndDie(k)
    <3>1. k = started /\ pc[k] = "wake" /\ is_ping_ongoing = 0
      BY <2>6 DEF WakeAndDie
    <3>2. wake_sema[handle] # "freed"
      BY <3>1
    <3>3. /\ \A j \in Pings : j # k => pc'[j] = pc[j] /\ wake_sema'[j] = wake_sema[j]
          /\ pc'[k] = "gone" /\ wake_sema'[k] = "full"
          /\ UNCHANGED <<started, is_ping_ongoing, stop_sema, misused>>
      BY <2>6, <3>1, <3>2 DEF WakeAndDie
    <3> QED BY <3>1, <3>3, SMTT(20)
  <2> QED BY <1>4, <2>1, <2>2, <2>3, <2>4, <2>5, <2>6 DEF Thread
<1> QED BY <1>1, <1>2, <1>3, <1>4 DEF Next

LEMMA StutterIInv == IInv /\ UNCHANGED vars => IInv'
  BY DEF IInv, vars, TypeOK, Threads, Counting, Calm, Sending, ZeroOnlyAtFirst

(* The inductive invariant holds in every run.                             *)
LEMMA Invariance == Spec => []IInv
<1>1. IInv /\ [Next]_vars => IInv'
  BY StepType, StepThreads, StepCounting, StepCalm, StutterIInv DEF IInv
<1> QED BY InitIInv, <1>1, PTL DEF Spec

-----------------------------------------------------------------------------
(* The counters stay words and the tasks where the code has a line for     *)
(* them, whatever the counts asked for (ping.c:312-320).                   *)
THEOREM TypeCorrect == Spec => []TypeOK
  BY Invariance, PTL DEF IInv

(* At most one thread sends, and only while is_ping_ongoing is 1           *)
(* (ping.c:366).                                                           *)
THEOREM AtMostOneSends == Spec => []OneSender
<1>1. TypeOK /\ Threads => OneSender
  BY PingAssumption DEF TypeOK, Threads, OneSender, Sending, Pings
<1> QED BY Invariance, <1>1, PTL DEF IInv

(* When ping_stop returns its ping is over, and no freed semaphore is      *)
(* used, unless a start came between ping.c:347 and 348.                   *)
THEOREM StopMeansOver == Spec => []StoppedIsOver
<1>1. (~hasty => Calm) => StoppedIsOver
  BY DEF Calm, StoppedIsOver
<1> QED BY Invariance, <1>1, PTL DEF IInv

(* Only a ping stopped before its first pause passes divides by zero       *)
(* (ping.c:323).                                                           *)
THEOREM ZeroOnlyThen == Spec => []ZeroOnlyAtFirst
  BY Invariance, PTL DEF IInv, Counting
=============================================================================
