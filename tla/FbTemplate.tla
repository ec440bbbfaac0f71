----------------------------- MODULE FbTemplate -----------------------------
(***************************************************************************)
(* The fixbuf template that all the streams of a run share, and the mutex  *)
(* around it, of src/src/io-ipfix.c.                                       *)
(*                                                                         *)
(* The reader and every output stream have a fixbuf session of their own,  *)
(* and every session refers to the one template of the I/O context: the    *)
(* reader's as its internal template, a writer's as its internal and its   *)
(* external one. The template counts these references and is freed with    *)
(* the last of them. The library counts without any protection (a count is *)
(* read here in one step and written in another), while the branch threads *)
(* open and close streams at any time: io_ipfix_read_init, _write_init,    *)
(* _read_close and _write_close therefore hold fb_mutex meanwhile.         *)
(***************************************************************************)
EXTENDS Integers, Sequences, FiniteSets

CONSTANTS
  NumBranches,  \* branches of the query: a thread each, while they run
  Sessions,     \* the fixbuf sessions: of the reader and of the output streams
  Programs      \* what the threads may do, in order, one sequence for each

Branches == 1 .. NumBranches
Main     == 0
Threads  == {Main} \cup Branches
NoThread  == -1
Destroyed == -2

\* The session of the reader; all the others are of writers.
Reader == <<"reader">>

\* The operations of a thread on the shared state.
Open(s)  == <<"open", s>>
Close(s) == <<"close", s>>
Operations ==
  {<<"spawn">>, <<"join">>, <<"destroy">>} \cup ({"open", "close"} \X Sessions)

ASSUME FbTemplateAssumption ==
  /\ NumBranches \in Nat
  /\ Programs \subseteq [Threads -> Seq(Operations)]

-----------------------------------------------------------------------------
VARIABLES
  program,    \* the operations of every thread, fixed from the start
  spawned,    \* the branch threads have been created
  at,         \* the next operation of every thread
  holder,     \* who holds fb_mutex: a thread, nobody, or it is destroyed
  seen,       \* the count a thread has read and not yet written, if any
  ref_count,  \* the references the template counts
  held,       \* the references that sessions have to it
  freed,      \* the template has been freed
  aborted     \* the process has been ended by exitOn

vars == <<program, spawned, at, holder, seen, ref_count, held, freed, aborted>>

\* The references a session has once it is open.
RefsOf(s) ==
  {s} \X (IF s = Reader THEN {"internal"} ELSE {"internal", "external"})
AllRefs == UNION {RefsOf(s) : s \in Sessions}

\* What a thread has not read yet, of a count.
Unread == -1

Finished(t) == at[t] = Len(program[t]) + 1
Ready(t) ==
  ~ aborted /\ (t # Main => spawned) /\ at[t] \in DOMAIN program[t]
Op(t) == program[t][at[t]]
OnSession(t) == Ready(t) /\ Op(t)[1] \in {"open", "close"}
Opens(t) == Op(t)[1] = "open"
Session(t) == Op(t)[2]

\* The references the operation of a thread still has to add, or to drop.
ToAdd(t)  == RefsOf(Session(t)) \ held
\* A mutant of ToDrop: only the reference of the internal template.
ToDropOne(t) == ({Session(t)} \X {"internal"}) \cap held
ToDrop(t) == RefsOf(Session(t)) \cap held
Pending(t) == IF Opens(t) THEN ToAdd(t) ELSE ToDrop(t)

\* A thread goes on to its next operation.
Proceed(t) == at' = [at EXCEPT ![t] = @ + 1]

Init ==
  /\ program \in Programs
  /\ spawned = FALSE
  /\ at = [t \in Threads |-> 1]
  /\ holder = NoThread
  /\ seen = [t \in Threads |-> Unread]
  /\ ref_count = 0
  /\ held = {}
  /\ freed = FALSE
  /\ aborted = FALSE

\* pthread_mutex_lock(fb_mutex), before the session touches the template.
Lock(t) ==
  /\ OnSession(t)
  /\ holder = NoThread
  /\ holder' = t
  /\ UNCHANGED <<program, spawned, at, seen, ref_count, held, freed, aborted>>

\* A mutant of ReadCount: streams are closed without the mutex.
ReadCountUnlocked(t) ==
  /\ OnSession(t)
  /\ Opens(t) => holder = t
  /\ seen[t] = Unread
  /\ Pending(t) # {}
  /\ seen' = [seen EXCEPT ![t] = ref_count]
  /\ UNCHANGED <<program, spawned, at, holder, ref_count, held, freed, aborted>>

\* The library reads the count, to retain or to release the template.
ReadCount(t) ==
  /\ OnSession(t)
  /\ holder = t
  /\ seen[t] = Unread
  /\ Pending(t) # {}
  /\ seen' = [seen EXCEPT ![t] = ref_count]
  /\ UNCHANGED <<program, spawned, at, holder, ref_count, held, freed, aborted>>

\* fbSessionAddTemplate writes the count back: the session has a reference.
AddReference(t) ==
  /\ OnSession(t)
  /\ Opens(t)
  /\ seen[t] # Unread
  /\ ref_count' = seen[t] + 1
  /\ \E r \in ToAdd(t) : held' = held \cup {r}
  /\ seen' = [seen EXCEPT ![t] = Unread]
  /\ UNCHANGED <<program, spawned, at, holder, freed, aborted>>

\* fBufFree writes the count back for one of the references of its session,
\* and frees the template when it was the last.
DropReference(t) ==
  /\ OnSession(t)
  /\ ~ Opens(t)
  /\ seen[t] # Unread
  /\ ref_count' = seen[t] - 1
  /\ \E r \in ToDrop(t) : held' = held \ {r}
  /\ freed' = (freed \/ seen[t] <= 1)
  /\ seen' = [seen EXCEPT ![t] = Unread]
  /\ UNCHANGED <<program, spawned, at, holder, aborted>>

\* A mutant of Unlock: closing a stream leaves the mutex locked.
UnlockForgottenOnClose(t) ==
  /\ OnSession(t)
  /\ holder = t
  /\ seen[t] = Unread
  /\ Pending(t) = {}
  /\ holder' = IF Opens(t) THEN NoThread ELSE holder
  /\ Proceed(t)
  /\ UNCHANGED <<program, spawned, seen, ref_count, held, freed, aborted>>

\* pthread_mutex_unlock(fb_mutex), when all references are dealt with.
Unlock(t) ==
  /\ OnSession(t)
  /\ holder = t
  /\ seen[t] = Unread
  /\ Pending(t) = {}
  /\ holder' = NoThread
  /\ Proceed(t)
  /\ UNCHANGED <<program, spawned, seen, ref_count, held, freed, aborted>>

\* fbSessionAddTemplate fails, which ends the process with the mutex held.
AddFails(t) ==
  /\ OnSession(t)
  /\ Opens(t)
  /\ holder = t
  /\ Pending(t) # {}
  /\ aborted' = TRUE
  /\ UNCHANGED <<program, spawned, at, holder, seen, ref_count, held, freed>>

\* Main creates the branch threads, and waits for all of them.
Spawn ==
  /\ Ready(Main)
  /\ Op(Main) = <<"spawn">>
  /\ spawned' = TRUE
  /\ Proceed(Main)
  /\ UNCHANGED <<program, holder, seen, ref_count, held, freed, aborted>>
Join ==
  /\ Ready(Main)
  /\ Op(Main) = <<"join">>
  /\ \A b \in Branches : Finished(b)
  /\ Proceed(Main)
  /\ UNCHANGED <<program, spawned, holder, seen, ref_count, held, freed, aborted>>

\* io_ipfix_ctxt_destroy: the mutex must not be locked.
Destroy ==
  /\ Ready(Main)
  /\ Op(Main) = <<"destroy">>
  /\ holder = NoThread
  /\ holder' = Destroyed
  /\ Proceed(Main)
  /\ UNCHANGED <<program, spawned, seen, ref_count, held, freed, aborted>>

Work(t) ==
  Lock(t) \/ ReadCount(t) \/ AddReference(t) \/ DropReference(t) \/ Unlock(t)

\* The process has ended.
Ended == aborted \/ Finished(Main)
End == Ended /\ UNCHANGED vars

Next ==
  \/ \E t \in Threads : Work(t) \/ AddFails(t)
  \/ Spawn \/ Join \/ Destroy
  \/ End

\* The system schedules every thread that can go on.
Fairness ==
  /\ \A b \in Branches : WF_vars(Work(b))
  /\ WF_vars(Work(Main) \/ Spawn \/ Join \/ Destroy)

Spec == Init /\ [][Next]_vars /\ Fairness

-----------------------------------------------------------------------------
(* Properties                                                              *)

TypeOK ==
  /\ program \in [Threads -> Seq(Operations)]
  /\ spawned \in BOOLEAN
  /\ at \in [Threads -> Nat]
  /\ holder \in Threads \cup {NoThread, Destroyed}
  /\ seen \in [Threads -> Nat \cup {Unread}]
  /\ ref_count \in Nat
  /\ held \subseteq AllRefs
  /\ freed \in BOOLEAN
  /\ aborted \in BOOLEAN

\* The template counts the references that sessions have to it, one by one: no
\* two threads ever count at the same time and lose one (io-ipfix.c:318, :401,
\* :511, :575).
CountExact == ref_count = Cardinality(held)

\* No session refers to a template that has been freed: also not the sessions
\* of the streams opened last, which rests on the reader being closed after
\* them. Between opening and closing a stream is used without the mutex.
TemplateLive == held # {} => ~ freed

\* "reference counted across fbSessions and freed with the last session"
\* (io-ipfix.c:589): when the context is destroyed no session is open, so that
\* nobody can lock the mutex any more, and the template is gone.
FreedWithLast ==
  holder = Destroyed => freed /\ held = {} /\ \A t \in Threads : Finished(t)

\* The process ends: no thread waits for a mutex that is never unlocked.
Closes == <>Ended

-----------------------------------------------------------------------------
(* The invariant from which the exact count follows: what a thread has read *)
(* is the count, because nobody else can be at it.                          *)

ReadByHolder ==
  \A t \in Threads :
    seen[t] # Unread => holder = t /\ seen[t] = Cardinality(held)

FbInv ==
  /\ TypeOK
  /\ IsFiniteSet(held)
  /\ ReadByHolder
  /\ CountExact

-----------------------------------------------------------------------------
(* The order in the programs from which TemplateLive and FreedWithLast      *)
(* follow, and the invariant that leads there.                              *)

\* Every stream that is opened by a thread is closed by it later on.
ClosesAll(ops) ==
  \A i \in DOMAIN ops : ops[i][1] = "open" =>
    \E j \in DOMAIN ops : i < j /\ ops[j] = Close(ops[i][2])

\* Main opens the reader first and closes it last, and has waited for the other
\* threads by then; the context is destroyed at the very end.
MainOrdered(ops) ==
  LET n == Len(ops)
  IN /\ n > 2
     /\ ops[1] = Open(Reader)
     /\ ops[n - 1] = Close(Reader)
     /\ ops[n] = <<"destroy">>
     /\ \A i \in 2 .. n - 2 :
          ops[i] \notin {Open(Reader), Close(Reader), <<"destroy">>}
     /\ \E i \in 2 .. n - 2 : ops[i] = <<"join">>

Ordered(p) ==
  /\ MainOrdered(p[Main])
  /\ \A b \in Branches : \A i \in DOMAIN p[b] :
       p[b][i] \notin {Open(Reader), Close(Reader)}
  /\ \A t \in Threads : ClosesAll(p[t])

\* How far the threads have come.
ProgressInv ==
  /\ \A t \in Threads : at[t] \in 1 .. Len(program[t]) + 1
  /\ \A i \in DOMAIN program[Main] :
       program[Main][i] = <<"join">> /\ i < at[Main] =>
         \A b \in Branches : Finished(b)
  /\ at[Main] = 1 => ~ spawned
  /\ holder = Destroyed => Finished(Main)

\* Whoever has opened a session has still to close it.
OwnedInv ==
  \A r \in held : \E t \in Threads : \E j \in DOMAIN program[t] :
    program[t][j] = Close(r[1]) /\ at[t] <= j

\* The reference of the reader is the first and the last one.
ReaderRef == <<Reader, "internal">>
ReaderInv ==
  LET closing == Len(program[Main]) - 1
  IN /\ at[Main] < closing => ~ freed
     /\ at[Main] \in 2 .. closing - 1 => ReaderRef \in held
     /\ at[Main] = closing => IF freed THEN held = {} ELSE ReaderRef \in held
     /\ at[Main] > closing => freed /\ held = {}

LifeInv ==
  FbInv /\ Ordered(program) /\ ProgressInv /\ OwnedInv /\ ReaderInv

=============================================================================
