-------------------------------- MODULE Ping --------------------------------
(***************************************************************************)
(* The ping service (code/net/ping/ping.c): the AT task starts and stops a *)
(* ping, a thread sends the echo requests, and two binary semaphores and   *)
(* one flag join them.  The thread has the lower priority (system_task.h), *)
(* so what the AT task does up to its next wait is one step, and it may    *)
(* come between any two steps of the thread.                               *)
(*                                                                         *)
(* Every start makes two semaphores and puts them into the same global     *)
(* handles; a task uses the semaphore the handle names at that moment.     *)
(***************************************************************************)
EXTENDS Integers

CONSTANTS Starts,  \* the pings started, 1, 2, ... : a bound
          Counts,  \* the numbers of requests asked for; 0 is for ever
          Word     \* a u32_t is below Word

ASSUME PingAssumption ==
  /\ Starts \in Nat \ {0}
  /\ Word \in Nat /\ Word > 1
  /\ Counts \subseteq 0..Word-1 /\ Counts # {}

Pings == 1..Starts

VARIABLES
  is_ping_ongoing,  \* the flag
  started,          \* the pings started so far
  handle,           \* whose semaphores the handles name, 0 at first
  stop_sema,        \* per ping: is its ping_stop_sema "none", "empty",
  wake_sema,        \*   "full" or "freed"; the same of its ping_wake_sema
  caller,           \* the AT task: "ready", or "waiting" in ping_stop
  pc,               \* per ping, where its thread is
  count,            \* per ping: ping_static.count
  residual_count,   \* per ping
  failed,           \* history, per ping: its thread never came to send
  first,            \* history, per ping: no request has been waited out
  hasty,            \* history: a start came before an old thread's last send
  misused           \* history: a freed semaphore was used

vars == <<is_ping_ongoing, started, handle, stop_sema, wake_sema, caller, pc,
          count, residual_count, failed, first, hasty, misused>>

SemaStates == {"none", "empty", "full", "freed"}
Places == {"none", "open", "send", "pause", "report", "flag", "wake", "gone"}

TypeOK ==
  /\ is_ping_ongoing \in {0, 1}
  /\ started \in 0..Starts
  /\ handle = started
  /\ stop_sema \in [Pings -> SemaStates]
  /\ wake_sema \in [Pings -> SemaStates]
  /\ caller \in {"ready", "waiting"}
  /\ pc \in [Pings -> Places]
  /\ count \in [Pings -> 0..Word-1]
  /\ residual_count \in [Pings -> 0..Word-1]
  /\ failed \in [Pings -> BOOLEAN] /\ first \in [Pings -> BOOLEAN]
  /\ hasty \in BOOLEAN /\ misused \in BOOLEAN

Init ==
  /\ is_ping_ongoing = 0
  /\ started = 0 /\ handle = 0
  /\ stop_sema = [k \in Pings |-> "none"]
  /\ wake_sema = [k \in Pings |-> "none"]
  /\ caller = "ready"
  /\ pc = [k \in Pings |-> "none"]
  /\ count = [k \in Pings |-> 0] /\ residual_count = [k \in Pings |-> 0]
  /\ failed = [k \in Pings |-> FALSE] /\ first = [k \in Pings |-> TRUE]
  /\ hasty = FALSE /\ misused = FALSE

-----------------------------------------------------------------------------
(* The AT task.                                                            *)

ping_init_Unchecked(n) ==  \* mutated form: the flag is not looked at
  /\ caller = "ready"
  /\ started < Starts
  /\ LET k == started + 1
     IN /\ started' = k /\ handle' = k
        /\ stop_sema' = [stop_sema EXCEPT ![k] = "empty"]
        /\ wake_sema' = [wake_sema EXCEPT ![k] = "empty"]
        /\ count' = [count EXCEPT ![k] = n]
        /\ residual_count' = [residual_count EXCEPT ![k] = n]
        /\ pc' = [pc EXCEPT ![k] = "open"]
  /\ is_ping_ongoing' = 1
  /\ hasty' = (hasty \/ \E k \in Pings : pc[k] = "wake")
  /\ UNCHANGED <<caller, first, misused, failed>>

(* ping_init for n requests.  The result of creating the thread is not     *)
(* looked at.  The old semaphores stay behind, whatever their state.       *)
ping_init(n) ==
  /\ caller = "ready"
  /\ is_ping_ongoing = 0
  /\ started < Starts
  /\ LET k == started + 1
     IN /\ started' = k /\ handle' = k
        /\ stop_sema' = [stop_sema EXCEPT ![k] = "empty"]
        /\ wake_sema' = [wake_sema EXCEPT ![k] = "empty"]
        /\ count' = [count EXCEPT ![k] = n]
        /\ residual_count' = [residual_count EXCEPT ![k] = n]
        /\ \/ pc' = [pc EXCEPT ![k] = "open"] /\ UNCHANGED failed
           \/ pc' = [pc EXCEPT ![k] = "gone"]
              /\ failed' = [failed EXCEPT ![k] = TRUE]
  /\ is_ping_ongoing' = 1
  /\ hasty' = (hasty \/ \E k \in Pings : pc[k] = "wake")
  /\ UNCHANGED <<caller, first, misused>>

StopAsks_Silent ==  \* mutated form: the thread is not told
  /\ caller = "ready"
  /\ is_ping_ongoing = 1
  /\ caller' = "waiting"
  /\ UNCHANGED <<is_ping_ongoing, started, handle, stop_sema, wake_sema, pc,
                 count, residual_count, failed, first, hasty, misused>>

(* ping_stop up to its wait.                                               *)
StopAsks ==
  /\ caller = "ready"
  /\ is_ping_ongoing = 1
  /\ IF stop_sema[handle] = "freed"
       THEN misused' = TRUE /\ UNCHANGED <<stop_sema, caller>>
       ELSE /\ stop_sema' = [stop_sema EXCEPT ![handle] = "full"]
            /\ caller' = "waiting"
            /\ UNCHANGED misused
  /\ UNCHANGED <<is_ping_ongoing, started, handle, wake_sema, pc, count,
                 residual_count, failed, first, hasty>>

StopReturns_Impatient ==  \* mutated form: the wait times out
  /\ caller = "waiting"
  /\ caller' = "ready"
  /\ stop_sema' = [stop_sema EXCEPT ![handle] = "freed"]
  /\ wake_sema' = [wake_sema EXCEPT ![handle] = "freed"]
  /\ UNCHANGED <<is_ping_ongoing, started, handle, pc, count, residual_count,
                 failed, first, hasty, misused>>

(* Its wait, for ever, and what follows: both semaphores are freed.        *)
StopReturns ==
  /\ caller = "waiting"
  /\ wake_sema[handle] = "full"
  /\ caller' = "ready"
  /\ stop_sema' = [stop_sema EXCEPT ![handle] = "freed"]
  /\ wake_sema' = [wake_sema EXCEPT ![handle] = "freed"]
  /\ UNCHANGED <<is_ping_ongoing, started, handle, pc, count, residual_count,
                 failed, first, hasty, misused>>

-----------------------------------------------------------------------------
(* The thread of ping k.                                                   *)

(* A thread that gets no socket clears the flag and is gone.               *)
Open(k) ==
  /\ pc[k] = "open"
  /\ \/ /\ pc' = [pc EXCEPT ![k] = "send"]
        /\ UNCHANGED <<is_ping_ongoing, failed>>
     \/ /\ pc' = [pc EXCEPT ![k] = "gone"]
        /\ is_ping_ongoing' = 0
        /\ failed' = [failed EXCEPT ![k] = TRUE]
  /\ UNCHANGED <<started, handle, stop_sema, wake_sema, caller, count,
                 residual_count, first, hasty, misused>>

(* ping_send, and ping_recv until the answer or PING_RCV_TIMEO.            *)
SendAndReceive(k) ==
  /\ pc[k] = "send"
  /\ pc' = [pc EXCEPT ![k] = "pause"]
  /\ UNCHANGED <<is_ping_ongoing, started, handle, stop_sema, wake_sema,
                 caller, count, residual_count, failed, first, hasty, misused>>

Left_Endless(k) ==  \* mutated form: a ping for ever counts down from 0
  (residual_count[k] + Word - 1) % Word

(* What is left to send after a request; a ping for ever has one left.     *)
Left(k) == IF count[k] # 0 THEN residual_count[k] - 1 ELSE 1

(* The pause between requests, which a stop cuts short.                    *)
Pause(k) ==
  /\ pc[k] = "pause"
  /\ \/ /\ stop_sema[handle] = "full"
        /\ stop_sema' = [stop_sema EXCEPT ![handle] = "empty"]
        /\ count' = [count EXCEPT ![k] =
                       (@ + Word - residual_count[k]) % Word]
        /\ pc' = [pc EXCEPT ![k] = "report"]
        /\ UNCHANGED <<residual_count, first, misused>>
     \/ /\ stop_sema[handle] = "empty"
        /\ residual_count' = [residual_count EXCEPT ![k] = Left(k)]
        /\ first' = [first EXCEPT ![k] = FALSE]
        /\ pc' = [pc EXCEPT ![k] = IF Left(k) > 0 THEN "send" ELSE "report"]
        /\ UNCHANGED <<stop_sema, count, misused>>
     \/ /\ stop_sema[handle] = "freed"
        /\ misused' = TRUE
        /\ pc' = [pc EXCEPT ![k] = "gone"]
        /\ UNCHANGED <<stop_sema, count, residual_count, first>>
  /\ UNCHANGED <<is_ping_ongoing, started, handle, wake_sema, caller, failed,
                 hasty>>

(* The statistics, a division by count among them; the callback; the       *)
(* socket closed.                                                          *)
Report(k) ==
  /\ pc[k] = "report"
  /\ pc' = [pc EXCEPT ![k] = "flag"]
  /\ UNCHANGED <<is_ping_ongoing, started, handle, stop_sema, wake_sema,
                 caller, count, residual_count, failed, first, hasty, misused>>

ClearFlag(k) ==
  /\ pc[k] = "flag"
  /\ is_ping_ongoing' = 0
  /\ pc' = [pc EXCEPT ![k] = "wake"]
  /\ UNCHANGED <<started, handle, stop_sema, wake_sema, caller, count,
                 residual_count, failed, first, hasty, misused>>

WakeAndDie(k) ==
  /\ pc[k] = "wake"
  /\ pc' = [pc EXCEPT ![k] = "gone"]
  /\ IF wake_sema[handle] = "freed"
       THEN misused' = TRUE /\ UNCHANGED wake_sema
       ELSE /\ wake_sema' = [wake_sema EXCEPT ![handle] = "full"]
            /\ UNCHANGED misused
  /\ UNCHANGED <<is_ping_ongoing, started, handle, stop_sema, caller, count,
                 residual_count, failed, first, hasty>>

Thread(k) == \/ Open(k) \/ SendAndReceive(k) \/ Pause(k) \/ Report(k)
             \/ ClearFlag(k) \/ WakeAndDie(k)

Next == \/ \E n \in Counts : ping_init(n)
        \/ StopAsks
        \/ StopReturns
        \/ \E k \in Pings : Thread(k)

(* A task that is ready runs: the AT task is the higher one and always     *)
(* comes to its next wait, and the thread's waits all end by a timeout.    *)
Fairness == WF_vars(StopReturns) /\ \A k \in Pings : WF_vars(Thread(k))

Spec == Init /\ [][Next]_vars /\ Fairness

-----------------------------------------------------------------------------
(* At most one thread sends, and only while the flag is up: the flag is    *)
(* all that keeps a second ping from starting over the first               *)
(* (ping.c:366, 274, 347).                                                 *)
Sending(k) == pc[k] \in {"open", "send", "pause", "report", "flag"}
OneSender ==
  \A k \in Pings :
     Sending(k) => /\ is_ping_ongoing = 1
                   /\ \A j \in Pings : Sending(j) => j = k

(* When ping_stop has returned its ping is over, and neither task ever     *)
(* uses a semaphore ping_stop freed (ping.c:391-393), unless a ping was    *)
(* started between the old thread's last two statements (ping.c:347-348):  *)
(* the old thread then wakes the stop of the new ping.                     *)
StoppedIsOver ==
  ~hasty => /\ ~misused
            /\ \A k \in Pings :
                  stop_sema[k] = "freed" => pc[k] = "gone"

(* The statistics divide by zero (ping.c:323) only when a ping is stopped  *)
(* in its first second; a ping for ever is never divided by its count 0.   *)
ZeroOnlyAtFirst ==
  \A k \in Pings : (pc[k] = "report" /\ count[k] = 0) => first[k]

(* ping_stop returns, whatever its ping is doing and even if it just ends  *)
(* by itself, unless that ping never got its thread or its socket          *)
(* (ping.c:272-276): then nobody wakes it.                                 *)
StopEnds ==
  (caller = "waiting") ~> (caller = "ready" \/ failed[handle] \/ hasty)
=============================================================================
