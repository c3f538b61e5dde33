---------------------------- MODULE EventManager ----------------------------
(***************************************************************************)
(* EventManager: dispatcher code collects events under a write lock while  *)
(* the thread that iterates over GraphEngine.run copies and yields them    *)
(* under a read lock, and ends after the completion flag is set.           *)
(*                                                                         *)
(* ReadWriteLock is a condition variable over a re-entrant lock: a reader  *)
(* holds the lock only to count itself in or out, a writer keeps it for as *)
(* long as it writes, and gives it up while it waits for readers.  The     *)
(* engine collects from one thread; the class promises a thread-safe       *)
(* collect, so there may be several here.  The last of them to finish sets *)
(* the completion flag, as the dispatcher does on its way out.             *)
(***************************************************************************)
EXTENDS Integers, Sequences

CONSTANTS
  Collectors,  \* threads that collect
  Reader,      \* the thread that iterates
  Nobody,      \* "no thread holds the lock"
  MaxEvents    \* bound: events each collector collects

ASSUME EventManagerAssumption ==
  /\ Reader \notin Collectors
  /\ Nobody \notin Collectors \cup {Reader}
  /\ MaxEvents \in Nat

VARIABLES
  events,    \* _events
  complete,  \* _execution_complete
  holder,    \* thread that holds the condition's lock
  readers,   \* _readers
  pc,        \* thread -> where it is
  count,     \* collector -> events it has collected
  seen,      \* what the reader has copied: a length, or a list of events
  yielded    \* events the consumer has got

lockVars == <<holder, readers>>
vars == <<events, complete, lockVars, pc, count, seen, yielded>>

Event == Collectors \X (1..MaxEvents)

Init ==
  /\ events = <<>>
  /\ complete = FALSE
  /\ holder = Nobody
  /\ readers = 0
  /\ pc = [t \in Collectors \cup {Reader} |-> IF t = Reader THEN "loop" ELSE "idle"]
  /\ count = [c \in Collectors |-> 0]
  /\ seen = <<>>
  /\ yielded = <<>>

Goto(t, l) == pc' = [pc EXCEPT ![t] = l]
-----------------------------------------------------------------------------
\* Collectors.

\* A slip: a writer does not wait for the readers.
AcquireWriteAtOnce(c) ==
  /\ pc[c] \in {"idle", "woken"}
  /\ count[c] < MaxEvents
  /\ holder = Nobody
  /\ Goto(c, "write")
  /\ holder' = c
  /\ UNCHANGED <<events, complete, readers, count, seen, yielded>>

\* acquire_write takes the lock and keeps it ...
AcquireWrite(c) ==
  /\ pc[c] \in {"idle", "woken"}
  /\ count[c] < MaxEvents
  /\ holder = Nobody
  /\ readers = 0
  /\ Goto(c, "write")
  /\ holder' = c
  /\ UNCHANGED <<events, complete, readers, count, seen, yielded>>

\* ... or waits on the condition while there are readers.
WaitForReaders(c) ==
  /\ pc[c] \in {"idle", "woken"}
  /\ count[c] < MaxEvents
  /\ holder = Nobody
  /\ readers > 0
  /\ Goto(c, "wait")
  /\ UNCHANGED <<events, complete, lockVars, count, seen, yielded>>

\* the critical section of collect
AppendEvent(c) ==
  /\ pc[c] = "write"
  /\ count' = [count EXCEPT ![c] = @ + 1]
  /\ events' = Append(events, <<c, count'[c]>>)
  /\ Goto(c, "written")
  /\ UNCHANGED <<complete, lockVars, seen, yielded>>

\* release_write
ReleaseWrite(c) ==
  /\ pc[c] = "written"
  /\ holder' = Nobody
  /\ Goto(c, "idle")
  /\ UNCHANGED <<events, complete, readers, count, seen, yielded>>

\* A collector is finished; mark_complete follows the last collect.
MarkComplete(c) ==
  /\ pc[c] = "idle"
  /\ Goto(c, "done")
  /\ complete' = (complete \/ \A d \in Collectors \ {c} : pc[d] = "done")
  /\ UNCHANGED <<events, lockVars, count, seen, yielded>>
-----------------------------------------------------------------------------
\* The reader.

\* A slip: the generator returns as soon as the flag is set.
TestLoopFlagOnly ==
  /\ pc[Reader] = "loop"
  /\ Goto(Reader, IF complete THEN "ended" ELSE "get")
  /\ UNCHANGED <<events, complete, lockVars, count, seen, yielded>>

\* The first part of the loop's condition: the events are counted only when the
\* flag is set.
TestLoop ==
  /\ pc[Reader] = "loop"
  /\ Goto(Reader, IF complete THEN "count" ELSE "get")
  /\ UNCHANGED <<events, complete, lockVars, count, seen, yielded>>

\* acquire_read, in _event_count or in _get_new_events
AcquireRead ==
  /\ pc[Reader] \in {"count", "get"}
  /\ holder = Nobody
  /\ readers' = readers + 1
  /\ Goto(Reader, IF pc[Reader] = "count" THEN "counting" ELSE "getting")
  /\ UNCHANGED <<events, complete, holder, count, seen, yielded>>

\* what the two copy under the lock
Copy ==
  /\ pc[Reader] \in {"counting", "getting"}
  /\ seen' = IF pc[Reader] = "counting"
             THEN events
             ELSE SubSeq(events, Len(yielded) + 1, Len(events))
  /\ Goto(Reader, IF pc[Reader] = "counting" THEN "counted" ELSE "got")
  /\ UNCHANGED <<events, complete, lockVars, count, yielded>>

Wake == {c \in Collectors : pc[c] = "wait"}

\* A slip: the writers are not notified.
ReleaseReadSilently ==
  /\ pc[Reader] \in {"counted", "got"}
  /\ holder = Nobody
  /\ readers' = readers - 1
  /\ Goto(Reader, IF pc[Reader] = "got" THEN "yield"
                  ELSE IF Len(yielded) < Len(seen) THEN "get" ELSE "ended")
  /\ UNCHANGED <<events, complete, holder, count, seen, yielded>>

\* release_read: the last reader notifies the writers
ReleaseRead ==
  /\ pc[Reader] \in {"counted", "got"}
  /\ holder = Nobody
  /\ readers' = readers - 1
  /\ pc' = [t \in DOMAIN pc |->
              CASE t = Reader /\ pc[t] = "got" -> "yield"
                [] t = Reader /\ pc[t] = "counted" ->
                     IF Len(yielded) < Len(seen) THEN "get" ELSE "ended"
                [] t # Reader -> IF readers' = 0 /\ t \in Wake THEN "woken" ELSE pc[t]]
  /\ UNCHANGED <<events, complete, holder, count, seen, yielded>>

\* The consumer takes the next of the new events; after the last, round again.
Yield ==
  /\ pc[Reader] = "yield"
  /\ IF seen = <<>>
     THEN Goto(Reader, "loop") /\ UNCHANGED <<seen, yielded>>
     ELSE /\ yielded' = Append(yielded, Head(seen))
          /\ seen' = Tail(seen)
          /\ UNCHANGED pc
  /\ UNCHANGED <<events, complete, lockVars, count>>

Collector(c) ==
  AcquireWrite(c) \/ WaitForReaders(c) \/ AppendEvent(c) \/ ReleaseWrite(c) \/ MarkComplete(c)
Emit == TestLoop \/ AcquireRead \/ Copy \/ ReleaseRead \/ Yield

Ended == /\ pc[Reader] = "ended"
         /\ \A c \in Collectors : pc[c] = "done"
         /\ UNCHANGED vars

Next == (\E c \in Collectors : Collector(c)) \/ Emit \/ Ended

\* Every thread is scheduled.  Between two rounds the reader is out of the lock,
\* for 1 ms when it found nothing new: a writer gets in there eventually.
Spec ==
  /\ Init
  /\ [][Next]_vars
  /\ SF_vars(Emit)
  /\ \A c \in Collectors : WF_vars(Collector(c)) /\ SF_vars(AcquireWrite(c))
-----------------------------------------------------------------------------
ReaderAt == {"loop", "count", "counting", "counted", "get", "getting", "got", "yield", "ended"}
CollectorAt == {"idle", "wait", "woken", "write", "written", "done"}
Reading == pc[Reader] \in {"counting", "counted", "getting", "got"}
Writing(c) == pc[c] \in {"write", "written"}

\* Type invariant: the state is well-formed.
TypeOK ==
  /\ events \in Seq(Event)
  /\ complete \in BOOLEAN
  /\ holder \in Collectors \cup {Nobody}
  /\ readers \in 0..1
  /\ pc \in [Collectors \cup {Reader} -> ReaderAt \cup CollectorAt]
  /\ pc[Reader] \in ReaderAt /\ \A c \in Collectors : pc[c] \in CollectorAt
  /\ count \in [Collectors -> 0..MaxEvents]
  /\ \A c \in Collectors : pc[c] = "write" => count[c] < MaxEvents
  /\ seen \in Seq(Event)
  /\ yielded \in Seq(Event)

\* The lock keeps a writer apart from readers and from other writers: the list
\* never changes while it is copied.
MutualExclusion ==
  /\ \A c, d \in Collectors : Writing(c) /\ Writing(d) => c = d
  /\ \A c \in Collectors : Writing(c) => ~Reading

\* The lock's own fields say who is inside.
LockInv ==
  /\ \A c \in Collectors : Writing(c) <=> holder = c
  /\ readers = IF Reading THEN 1 ELSE 0
  /\ readers > 0 => holder = Nobody

\* The flag is set when nobody collects any more; the generator counts the
\* events only after that, and returns with all of them.
CompletionInv ==
  /\ complete => \A c \in Collectors : pc[c] = "done"
  /\ pc[Reader] \in {"count", "counting", "counted", "ended"} => complete
  /\ pc[Reader] = "counted" => seen = events
  /\ pc[Reader] = "ended" => yielded = events

\* What the reader yields next continues what it has yielded: copies made
\* under different locks neither overlap nor leave a gap.
CopiesContinue ==
  /\ Len(yielded) <= Len(events) /\ \A i \in 1..Len(yielded) : yielded[i] = events[i]
  /\ pc[Reader] \in {"got", "yield"} =>
       /\ Len(yielded) + Len(seen) <= Len(events)
       /\ \A i \in 1..Len(seen) : seen[i] = events[Len(yielded) + i]

\* The lock and the copies made under it, at every moment.
Inv == TypeOK /\ MutualExclusion /\ LockInv /\ CompletionInv /\ CopiesContinue

\* A writer that waits for readers is woken up, and the generator returns once
\* the last event has been collected: the lock loses no wake-up.
GeneratorEnds == <>(pc[Reader] = "ended")

\* The consumer gets the events in the order of their collection, each once,
\* all of them before the generator returns, however collecting, completing
\* and copying interleave.
Stream == INSTANCE EventStream
            WITH collected <- events, completed <- complete, ended <- pc[Reader] = "ended"
ImplementsStream == Stream!Spec
=============================================================================
