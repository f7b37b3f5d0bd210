------------------------------- MODULE AtCmd -------------------------------
(***************************************************************************)
(* The AT command interpreter (code/atcmd/at_cmd.c): the UART's receive    *)
(* interrupt fills one line buffer and gives a counting semaphore, a task  *)
(* takes it, copies the buffer and runs the command, looked up in a linked *)
(* list that other tasks add to and remove from.                           *)
(*                                                                         *)
(* The interrupt comes between any two steps of a task.  A line is its     *)
(* number, and arrives in two halves; memcpy takes one half, then the      *)
(* other.  What a command does is not modelled, only that it was run, and  *)
(* that it may never return.                                               *)
(***************************************************************************)
EXTENDS Naturals, Sequences, SequencesExt

CONSTANTS Lines,        \* the lines the host sends, 1, 2, ... : a bound
          at_base_tbl,  \* a table of commands, as a sequence
          at_test_tbl,  \* another
          AppTables,    \* the tables an application adds and removes
          Changes       \* the times it does so: a bound

BuiltIn == {at_base_tbl, at_test_tbl}
Tables == AppTables \union BuiltIn

ASSUME AtAssumption ==
  /\ Lines \in Nat
  /\ Changes \in Nat
  /\ <<>> \notin Tables
  /\ at_base_tbl # at_test_tbl /\ BuiltIn \cap AppTables = {}
  /\ \A t \in Tables :
        /\ t \in Seq(Range(t)) /\ IsInjective(t)
        /\ \A u \in Tables : u # t => Range(t) \cap Range(u) = {}

Items == UNION {Range(t) : t \in Tables}

VARIABLES
  rxbuf,      \* the line each half of the buffer is of, 0 for none
  announced,  \* lines handed over by the interrupt so far
  arriving,   \* the first half of the next line is in the buffer
  armed,      \* the UART driver calls loguart_hdl_recv
  sema,       \* at_hdl.sema: its count, and whether it is there
  tbl,        \* at_hdl.tbl
  exit,       \* at_hdl.exit
  init,       \* how far at_hdl_int has come
  pc,         \* how far at_task has come
  copy,       \* its copy of the buffer
  linked,     \* the application's tables now added
  changes,    \* what is left of Changes
  executed,   \* history: the copies run so far
  hurried,    \* history: a line began while another was not yet copied
  leftover,   \* history: the tables of several commands once removed
  again,      \* history: one of these was added again
  deinit,     \* how far at_hdl_deinit has come
  crowded,    \* history: its task had something to do meanwhile
  misused     \* history: a semaphore was given that was not there

isrvars == <<rxbuf, announced, arriving>>
taskvars == <<pc, copy, executed>>
listvars == <<linked, changes, leftover, again>>
deinitvars == <<deinit, crowded, misused>>
vars == <<isrvars, armed, sema, tbl, exit, init, taskvars, listvars, hurried,
          deinitvars>>

Whole(n) == [head |-> n, tail |-> n]

Init ==
  /\ rxbuf = Whole(0) /\ copy = Whole(0)
  /\ announced = 0 /\ arriving = FALSE
  /\ armed = FALSE
  /\ sema = [is |-> "none", count |-> 0]
  /\ tbl = <<>>
  /\ exit = FALSE
  /\ init = "sema" /\ pc = "none"
  /\ executed = <<>>
  /\ linked = {} /\ changes = Changes
  /\ hurried = FALSE /\ leftover = {} /\ again = FALSE
  /\ deinit = "no" /\ crowded = FALSE /\ misused = FALSE

-----------------------------------------------------------------------------
(* The host and the receive interrupt.  The driver, a binary, puts what it *)
(* receives into the buffer and calls loguart_hdl_recv at a line's end.    *)

(* Whether the task is idle and no line is on its way.                     *)
Idle == pc = "wait" /\ sema.count = 0 /\ ~arriving

(* An announced line is still in the buffer only.                          *)
Uncopied == sema.count > 0 \/ pc \in {"head", "tail"}

LineBegins ==
  /\ armed
  /\ announced < Lines /\ ~arriving
  /\ arriving' = TRUE
  /\ rxbuf' = [rxbuf EXCEPT !.head = announced + 1]
  /\ hurried' = (hurried \/ Uncopied)
  /\ UNCHANGED <<announced, armed, sema, tbl, exit, init, taskvars, listvars,
                 deinitvars>>

Give_Binary(s) == [s EXCEPT !.count = 1]  \* mutated form: sema_binary
Give(s) == [s EXCEPT !.count = @ + 1]

loguart_hdl_recv ==
  /\ armed
  /\ arriving
  /\ arriving' = FALSE
  /\ announced' = announced + 1
  /\ rxbuf' = [rxbuf EXCEPT !.tail = announced + 1]
  /\ IF sema.is = "live"
       THEN sema' = Give(sema) /\ UNCHANGED misused
       ELSE misused' = TRUE /\ UNCHANGED sema
  /\ crowded' = (crowded \/ deinit = "give")
  /\ UNCHANGED <<armed, tbl, exit, init, taskvars, listvars, hurried, deinit>>

-----------------------------------------------------------------------------
(* The list of commands.  Every change is made in a critical section.      *)

(* wl_list_add of a node, at the end.  One that is in the list already     *)
(* becomes the last: the nodes behind it are reached no more.              *)
wl_list_add(list, item) ==
  IF item \in Range(list)
    THEN SubSeq(list, 1, CHOOSE i \in DOMAIN list : list[i] = item)
    ELSE Append(list, item)

at_add_cmd(t) == tbl' = FoldLeft(wl_list_add, tbl, t)

(* The loop never advances item: it looks for the first command of the     *)
(* table each time, and a node is in the list once.                        *)
at_remove_cmd_None(t) == tbl' = tbl  \* mutated form
at_remove_cmd(t) == tbl' = RemoveFirst(tbl, t[1])

(* An application's table, added or removed at any time once the list is   *)
(* there.                                                                  *)
AppAdds ==
  /\ init = "done" /\ changes > 0
  /\ \E t \in AppTables \ linked :
        /\ at_add_cmd(t)
        /\ linked' = linked \union {t}
        /\ again' = (again \/ t \in leftover)
  /\ changes' = changes - 1
  /\ UNCHANGED <<isrvars, armed, sema, exit, init, taskvars, leftover, hurried,
                 deinitvars>>

AppRemoves ==
  /\ init = "done" /\ changes > 0
  /\ \E t \in linked :
        /\ at_remove_cmd(t)
        /\ linked' = linked \ {t}
        /\ leftover' = IF Len(t) > 1 THEN leftover \union {t} ELSE leftover
  /\ changes' = changes - 1
  /\ UNCHANGED <<isrvars, armed, sema, exit, init, taskvars, again, hurried,
                 deinitvars>>

-----------------------------------------------------------------------------
(* at_hdl_int, called once at start-up, statement by statement.            *)

wl_init_sema ==
  /\ init = "sema"
  /\ init' = "arm"
  /\ sema' = [is |-> "live", count |-> 0]
  /\ UNCHANGED <<isrvars, armed, tbl, exit, taskvars, listvars, hurried,
                 deinitvars>>

at_reg_loguart ==
  /\ init = "arm"
  /\ init' = "list"
  /\ armed' = TRUE
  /\ UNCHANGED <<isrvars, sema, tbl, exit, taskvars, listvars, hurried,
                 deinitvars>>

wl_init_list ==
  /\ init = "list"
  /\ init' = "base"
  /\ tbl' = <<>>
  /\ exit' = FALSE
  /\ UNCHANGED <<isrvars, armed, sema, taskvars, listvars, hurried,
                 deinitvars>>

at_base_init ==
  /\ init = "base"
  /\ init' = "test"
  /\ at_add_cmd(at_base_tbl)
  /\ UNCHANGED <<isrvars, armed, sema, exit, taskvars, listvars, hurried,
                 deinitvars>>

at_test_init ==
  /\ init = "test"
  /\ init' = "thread"
  /\ at_add_cmd(at_test_tbl)
  /\ UNCHANGED <<isrvars, armed, sema, exit, taskvars, listvars, hurried,
                 deinitvars>>

(* Nobody looks whether the task was created: if not, the interrupt stays  *)
(* armed, and lines come that nobody takes.                                *)
wl_create_thread ==
  /\ init = "thread"
  /\ init' = "done"
  /\ pc' \in {"wait", "failed"}
  /\ UNCHANGED <<isrvars, armed, sema, tbl, exit, copy, executed, listvars,
                 hurried, deinitvars>>

at_hdl_int ==
  \/ wl_init_sema \/ at_reg_loguart \/ wl_init_list
  \/ at_base_init \/ at_test_init \/ wl_create_thread

(* at_hdl_deinit, called at most once, by a task of any priority: the AT   *)
(* task may come between its two statements.                               *)
DeinitAsks ==
  /\ init = "done" /\ deinit = "no"
  /\ deinit' = "give"
  /\ exit' = TRUE
  /\ crowded' = ~Idle
  /\ UNCHANGED <<isrvars, armed, sema, tbl, init, taskvars, listvars, hurried,
                 misused>>

DeinitGives_Silent ==  \* mutated form: the task is not woken
  /\ deinit = "give"
  /\ deinit' = "done"
  /\ UNCHANGED <<isrvars, armed, sema, tbl, exit, init, taskvars, listvars,
                 hurried, crowded, misused>>

DeinitGives ==
  /\ deinit = "give"
  /\ deinit' = "done"
  /\ IF sema.is = "live"
       THEN sema' = Give(sema) /\ UNCHANGED misused
       ELSE misused' = TRUE /\ UNCHANGED sema
  /\ UNCHANGED <<isrvars, armed, tbl, exit, init, taskvars, listvars, hurried,
                 crowded>>

-----------------------------------------------------------------------------
(* at_task.                                                                *)

wl_wait_sema ==
  /\ pc = "wait"
  /\ sema.count > 0
  /\ sema' = [sema EXCEPT !.count = @ - 1]
  /\ pc' = "head"
  /\ UNCHANGED <<isrvars, armed, tbl, exit, init, copy, executed, listvars,
                 hurried, deinitvars>>

(* memcpy of at_cmd_hdl; nobody looks at the lock it holds.                *)
CopyHead ==
  /\ pc = "head"
  /\ pc' = "tail"
  /\ copy' = [copy EXCEPT !.head = rxbuf.head]
  /\ UNCHANGED <<isrvars, armed, sema, tbl, exit, init, executed, listvars,
                 hurried, deinitvars>>

CopyTail_Short ==  \* mutated form: the tail is not copied
  /\ pc = "tail"
  /\ pc' = "run"
  /\ UNCHANGED <<isrvars, armed, sema, tbl, exit, init, copy, executed,
                 listvars, hurried, deinitvars>>

CopyTail ==
  /\ pc = "tail"
  /\ pc' = "run"
  /\ copy' = [copy EXCEPT !.tail = rxbuf.tail]
  /\ UNCHANGED <<isrvars, armed, sema, tbl, exit, init, executed, listvars,
                 hurried, deinitvars>>

(* The rest of at_cmd_hdl.  A command may never return: the stop of a ping *)
(* that waits for a thread that is not there (ping.c:392), the update that *)
(* waits for a connection the server has closed (httpc_core.c:692).        *)
at_cmd_hdl ==
  /\ pc = "run"
  /\ pc' \in {"exit", "stuck"}
  /\ executed' = Append(executed, copy)
  /\ UNCHANGED <<isrvars, armed, sema, tbl, exit, init, copy, listvars, hurried,
                 deinitvars>>

CheckExit ==
  /\ pc = "exit"
  /\ pc' = IF exit THEN "base" ELSE "wait"
  /\ UNCHANGED <<isrvars, armed, sema, tbl, exit, init, copy, executed,
                 listvars, hurried, deinitvars>>

at_base_deinit ==
  /\ pc = "base"
  /\ at_remove_cmd(at_base_tbl)
  /\ pc' = "test"
  /\ UNCHANGED <<isrvars, armed, sema, exit, init, copy, executed, listvars,
                 hurried, deinitvars>>

at_test_deinit ==
  /\ pc = "test"
  /\ at_remove_cmd(at_test_tbl)
  /\ pc' = "unreg"
  /\ UNCHANGED <<isrvars, armed, sema, exit, init, copy, executed, listvars,
                 hurried, deinitvars>>

at_unreg_loguart_Late ==  \* mutated form: left to the driver
  /\ pc = "unreg"
  /\ pc' = "free"
  /\ UNCHANGED <<isrvars, armed, sema, tbl, exit, init, copy, executed,
                 listvars, hurried, deinitvars>>

at_unreg_loguart ==
  /\ pc = "unreg"
  /\ pc' = "free"
  /\ armed' = FALSE
  /\ UNCHANGED <<isrvars, sema, tbl, exit, init, copy, executed, listvars,
                 hurried, deinitvars>>

wl_free_sema ==
  /\ pc = "free"
  /\ pc' = "gone"
  /\ sema' = [is |-> "freed", count |-> 0]
  /\ UNCHANGED <<isrvars, armed, tbl, exit, init, copy, executed, listvars,
                 hurried, deinitvars>>

at_task ==
  \/ wl_wait_sema \/ CopyHead \/ CopyTail \/ at_cmd_hdl \/ CheckExit
  \/ at_base_deinit \/ at_test_deinit \/ at_unreg_loguart \/ wl_free_sema

Next == \/ LineBegins \/ loguart_hdl_recv
        \/ at_hdl_int \/ DeinitAsks \/ DeinitGives \/ at_task
        \/ AppAdds \/ AppRemoves

(* Start-up and at_hdl_deinit go on, and the task is scheduled when it is  *)
(* ready; that a command returns is not assumed.                           *)
Fairness == WF_vars(at_hdl_int) /\ WF_vars(DeinitGives) /\ WF_vars(at_task)

Spec == Init /\ [][Next]_vars /\ Fairness

-----------------------------------------------------------------------------
(* As long as the host begins no line before the last one has been copied, *)
(* the one buffer, the semaphore and the copy are a queue of lines: each   *)
(* is run once, whole, in order and after it came, from the first          *)
(* interrupt to the end of the task (at_cmd.c:234, 552, 648).  The wake-up *)
(* of at_hdl_deinit is no line: if the task has nothing to do then, it     *)
(* runs what is in the buffer, the last line or that with the beginning of *)
(* a new one, before it looks at exit (at_cmd.c:280, 651).                 *)
Queue == INSTANCE LineQueue WITH
  came <- IF hurried THEN 0 ELSE announced,
  ran <- IF hurried THEN <<>> ELSE executed,
  life <- IF hurried THEN "void"
          ELSE IF ~exit THEN "serving"
          ELSE IF pc \in {"none", "wait", "failed", "head", "tail", "run"}
            THEN "ending" ELSE "over"

ImplementsQueue == Queue!QSpec

(* A host that does hurry may lose lines and have others run twice or      *)
(* mixed, but its last line is run, whole, and as often as lines came      *)
(* something was run.                                                      *)
LastLineRuns ==
  (Idle /\ ~exit /\ announced > 0) =>
     /\ Len(executed) = announced
     /\ Last(executed) = Whole(announced)

(* The interrupt and at_hdl_deinit never give a semaphore that is not      *)
(* there: it is created before the UART is armed and freed after it is     *)
(* disarmed (at_cmd.c:267, 663-664).  The exception is a deinit of a task  *)
(* that has something to do: it may see exit, end and free the semaphore   *)
(* before at_hdl_deinit gives it (at_cmd.c:279-280).                       *)
GivesWhatIsThere == ~crowded => ~misused

(* While the task serves, it finds every command of the tables added and   *)
(* none of a table removed, but for two things: all commands of a removed  *)
(* table but its first are still found, since at_remove_cmd looks for the  *)
(* first each time (at_cmd.c:471-481), and when such a table is added      *)
(* again, commands are lost.                                               *)
Added == UNION {Range(t) : t \in linked \union BuiltIn}
Remains == UNION {Range(Tail(t)) : t \in leftover}
FindsWhatWasAdded ==
  (pc \in {"wait", "head", "tail", "run"} /\ ~again) =>
     /\ Added \subseteq Range(tbl)
     /\ Range(tbl) \subseteq Added \union Remains

(* at_hdl_deinit gets the task to its end whatever it is doing, unless it  *)
(* runs a command that never returns (at_cmd.c:608) or was never created,  *)
(* which nobody looks at (at_cmd.c:273).                                   *)
DeinitEnds == exit ~> (pc \in {"gone", "stuck", "failed"})
=============================================================================
