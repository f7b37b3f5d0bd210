------------------------------ MODULE SysArch -------------------------------
(***************************************************************************)
(* The thread table of lwIP's port to FreeRTOS (sys_arch.c): any task may  *)
(* create a thread, and delete one by its handle, or itself.  A step is    *)
(* what happens between two points at which another task can run: the      *)
(* tests of s_nextthread are made before the critical section, and a       *)
(* thread that has been created can run before it is in the table.         *)
(*                                                                         *)
(* The handle of a destroyed thread may be given to the next one created,  *)
(* as a heap does.  What lies behind the table is not modelled: when a     *)
(* handle has been written there, the model stops.                         *)
(***************************************************************************)
EXTENDS Integers

CONSTANTS
  Handles,   \* what wl_create_thread can return
  Apps,      \* the application's tasks, which the table never holds
  Null,      \* the handle of no thread
  Max        \* SYS_THREAD_MAX

ASSUME HandlesAssumption ==
  Null \notin Handles \cup Apps /\ Handles \cap Apps = {}
ASSUME MaxAssumption == Max \in Nat \ {0}

VARIABLES
  table,     \* s_timeoutlist: the pid of each slot
  next,      \* s_nextthread
  alive,     \* the threads the operating system knows
  pc, arg,   \* of each task: where it is in a call, and the call's handle
  raced,     \* two tasks have been between the test and the table at once
  orphans    \* living threads whose creator was destroyed before its entry

vars == <<table, next, alive, pc, arg, raced, orphans>>

Slots == 0 .. Max - 1
Tasks == Apps \cup Handles
Steps == {"idle", "create", "enter", "delete"}

Used == {i \in Slots : i < next}
Registered == {table[i] : i \in Used} \ {Null}
Creators == {t \in Tasks : pc[t] \in {"create", "enter"}}

(* sys_init *)
Init ==
  /\ table = [i \in Slots |-> Null]
  /\ next = 0
  /\ alive = {}
  /\ pc = [t \in Tasks |-> "idle"]
  /\ arg = [t \in Tasks |-> Null]
  /\ raced = FALSE
  /\ orphans = {}

(* A task that runs, as long as nothing behind the table is overwritten. *)
Runs(t) == t \in Apps \cup alive /\ next =< Max

(* Mutated form: the test is one too generous. *)
Ask_OffByOne(t) ==
  /\ Runs(t) /\ pc[t] = "idle"
  /\ next =< Max
  /\ pc' = [pc EXCEPT ![t] = "create"]
  /\ raced' = (raced \/ Creators # {})
  /\ UNCHANGED <<table, next, alive, arg, orphans>>

(* sys_thread_new: is there a slot? *)
Ask(t) ==
  /\ Runs(t) /\ pc[t] = "idle"
  /\ next < Max
  /\ pc' = [pc EXCEPT ![t] = "create"]
  /\ raced' = (raced \/ Creators # {})
  /\ UNCHANGED <<table, next, alive, arg, orphans>>

(* wl_create_thread: a handle no living thread has, or none. *)
Create(t) ==
  /\ Runs(t) /\ pc[t] = "create"
  /\ \E h \in (Handles \ alive) \cup {Null} :
       /\ arg' = [arg EXCEPT ![t] = h]
       /\ alive' = alive \cup ({h} \ {Null})
  /\ pc' = [pc EXCEPT ![t] = "enter"]
  /\ UNCHANGED <<table, next, raced, orphans>>

(* The critical section: whatever was created takes the next slot. *)
Enter(t) ==
  /\ Runs(t) /\ pc[t] = "enter"
  /\ table' = [i \in Slots |-> IF i = next THEN arg[t] ELSE table[i]]
  /\ next' = next + 1
  /\ pc' = [pc EXCEPT ![t] = "idle"]
  /\ arg' = [arg EXCEPT ![t] = Null]
  /\ UNCHANGED <<alive, raced, orphans>>

(* sys_thread_delete of the thread h, or of the caller: is there any? *)
AskDelete(t, h) ==
  /\ Runs(t) /\ pc[t] = "idle"
  /\ next # 0
  /\ pc' = [pc EXCEPT ![t] = "delete"]
  /\ arg' = [arg EXCEPT ![t] = h]
  /\ UNCHANGED <<table, next, alive, raced, orphans>>

(* Mutated form: the last entry is copied and not cleared. *)
Without_KeepsLast(d) ==
  [i \in Slots |-> IF i = d THEN table[next - 1] ELSE table[i]]

(* Mutated form: the entry is cleared where it was found, and the last forgotten. *)
Without_Clears(d) == [i \in Slots |-> IF i = d THEN Null ELSE table[i]]

(* The table without slot d: the last entry takes its place. *)
Without(d) ==
  [i \in Slots |-> IF i = next - 1 THEN Null
                   ELSE IF i = d THEN table[next - 1] ELSE table[i]]

(* wl_destory_thread: a task that was calling is never heard of again, and *)
(* what it created and has not entered is nobody's.                        *)
Destroy(h, t) ==
  /\ alive' = alive \ {h}
  /\ pc' = [pc EXCEPT ![h] = "idle", ![t] = "idle"]
  /\ arg' = [arg EXCEPT ![h] = Null, ![t] = Null]
  /\ orphans' = IF pc[h] = "enter" THEN orphans \cup ({arg[h]} \ {Null})
                                   ELSE orphans

(* Mutated form: the thread is destroyed whether it was found or not. *)
Delete_Unfound(t) ==
  LET h == arg[t] IN
  /\ Runs(t) /\ pc[t] = "delete"
  /\ \/ \E d \in Used :
          /\ table[d] = h
          /\ table' = Without(d)
          /\ next' = next - 1
     \/ /\ \A d \in Used : table[d] # h
        /\ UNCHANGED <<table, next>>
  /\ Destroy(h, t)
  /\ UNCHANGED raced

(* The critical section: the handle is looked for among the entries. *)
Delete(t) ==
  LET h == arg[t] IN
  /\ Runs(t) /\ pc[t] = "delete"
  /\ \/ \E d \in Used :
          /\ table[d] = h
          /\ table' = Without(d)
          /\ next' = next - 1
          /\ Destroy(h, t)
     \/ /\ \A d \in Used : table[d] # h
        /\ pc' = [pc EXCEPT ![t] = "idle"]
        /\ arg' = [arg EXCEPT ![t] = Null]
        /\ UNCHANGED <<table, next, alive, orphans>>
  /\ UNCHANGED raced

Next == \E t \in Tasks :
  \/ Ask(t) \/ Create(t) \/ Enter(t) \/ Delete(t)
  \/ \E h \in Handles \cup {t} : AskDelete(t, h)

Spec == Init /\ [][Next]_vars

-----------------------------------------------------------------------------
(* The table is a set of living threads: no thread has two entries, every  *)
(* entry below s_nextthread is a thread that lives (or the mark of a       *)
(* creation that failed), and the slots above are clear (sys_arch.c:359,   *)
(* 451-456, with calls of several tasks interleaved).                      *)
TableIsExact ==
  /\ \A i \in Slots : i >= next => table[i] = Null
  /\ Registered \subseteq alive
  /\ \A i, j \in Used : table[i] = table[j] /\ table[i] # Null => i = j

(* A living thread that sys_thread_delete cannot find is one whose creator *)
(* is between wl_create_thread and the table (sys_arch.c:354-359), or was  *)
(* deleted there.                                                          *)
OnlyNewcomersAreUnknown ==
  next =< Max =>
    alive = Registered \cup orphans
              \cup ({arg[t] : t \in {u \in Tasks : pc[u] = "enter"}} \ {Null})

(* The test of s_nextthread against SYS_THREAD_MAX is made outside the     *)
(* critical section (sys_arch.c:352): the table overflows only if two      *)
(* tasks create a thread at the same time, and never otherwise.            *)
OverflowNeedsARace == next > Max => raced

(* Up to an overflow the table implements a set of threads with room for   *)
(* Max, whatever the interleaving: a deletion forgets its thread and no    *)
(* other, a creation adds one, or loses a slot for ever when it failed     *)
(* (sys_arch.c:354-359 does not test the handle).                          *)
Registry == INSTANCE ThreadRegistry
  WITH Thread <- Handles, Room <- Max, threads <- Registered, room <- Max - next

RegistryNext == next' =< Max => Registry!Next
ImplementsRegistry == Registry!Init /\ [][RegistryNext]_<<Registered, next>>
=============================================================================
