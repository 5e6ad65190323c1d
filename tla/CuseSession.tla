----------------------------- MODULE CuseSession -----------------------------
(* The life of a CUSE session: requests served one at a time by libfuse's    *)
(* loop on a thread of its own, replies answered there, parked, or moved to  *)
(* other threads, handles of open files given to the kernel as addresses,    *)
(* and the shutdown that joins the loop, drops the device, forbids replies,  *)
(* frees what is left and tears the session down.  libfuse and the kernel    *)
(* are external.                                                             *)
EXTENDS Naturals, FiniteSets, Optional

CONSTANTS
    Opens,      \* open requests; the handle of an open file is named by its request
    Others,     \* read, write, ioctl and poll requests
    MaxStops    \* bound: calls of stop

Requests == Opens \cup Others

ASSUME SessionAssumption == Opens \cap Others = {} /\ MaxStops \in Nat \ {0}

VARIABLES
    fuse,       \* the loop, its exit flag, the kernel's open files, torn down or not
    reply,      \* per request, where its reply is
    handles,    \* the registry of handles to free
    slots,      \* per open: how often its handle was allocated and freed
    life        \* liveness flag, holders of its read lock, shutdown phase, stops

cuseVars == <<fuse, reply, handles, slots, life>>

\* A call into libfuse for a request: noted when the session no longer exists.
Touched(f) == [f EXCEPT !.late = @ \/ f.torn]

Alloc(h) == [slots EXCEPT ![h].made = @ + 1]
Free(table, hs) == [h \in Opens |-> IF h \in hs THEN [table[h] EXCEPT !.freed = @ + 1] ELSE table[h]]

-------------------------------------------------------------------------------
(* The loop looks at the exit flag, and then enters the read(2) it blocks    *)
(* in until there is a request or a signal.                                  *)

LoopChecks ==
    /\ fuse.loop = "checking"
    /\ fuse' = [fuse EXCEPT !.loop = IF fuse.exit THEN "ended" ELSE "entering"]
    /\ UNCHANGED <<reply, handles, slots, life>>

LoopBlocks ==
    /\ fuse.loop = "entering"
    /\ fuse' = [fuse EXCEPT !.loop = "reading"]
    /\ UNCHANGED <<reply, handles, slots, life>>

\* dispatch of a request.  The device answers, parks the reply, moves it to
\* another thread, or panics, which drops it and answers EIO; an interrupt that
\* came before the handler returned is delivered when it has.
Dispatch(r) ==
    /\ fuse.loop = "reading" /\ reply[r] = "none"
    /\ r \in Others => fuse.files # {}
    /\ \/ /\ r \in Others
          /\ reply' = [reply EXCEPT ![r] = "answered"]
       \/ \E interrupted \in BOOLEAN :
            reply' = [reply EXCEPT ![r] = IF interrupted THEN "answered" ELSE "parked"]
       \/ reply' = [reply EXCEPT ![r] = "moved"]
    /\ fuse' = [Touched(fuse) EXCEPT !.loop = "checking"]
    /\ UNCHANGED <<handles, slots, life>>

\* A signal reached the caller of a parked request: the device answers EINTR.
Interrupt(r) ==
    /\ fuse.loop = "reading" /\ reply[r] = "parked"
    /\ reply' = [reply EXCEPT ![r] = "answered"]
    /\ fuse' = [Touched(fuse) EXCEPT !.loop = "checking"]
    /\ UNCHANGED <<handles, slots, life>>

\* The kernel releases a file: the handle is freed by whoever finds it
\* registered.
Release(h) ==
    /\ fuse.loop = "reading" /\ h \in fuse.files
    /\ handles' = handles \ {h}
    /\ slots' = Free(slots, handles \cap {h})
    /\ fuse' = [Touched(fuse) EXCEPT !.loop = "checking", !.files = @ \ {h}]
    /\ UNCHANGED <<reply, life>>

-------------------------------------------------------------------------------
(* Replies, from any thread: the read lock, the check, the call.             *)

ReplyBecomes(r, state) == reply' = [reply EXCEPT ![r] = state]

\* send, error and Drop of RawReply, up to the call into libfuse.
SendBegins(r) ==
    /\ reply[r] \in (IF r \in Opens THEN {"registered"} ELSE {"parked", "moved"})
    /\ IF life.live THEN ReplyBecomes(r, "sending") /\ life' = [life EXCEPT !.readers = @ \cup {r}]
       ELSE ReplyBecomes(r, IF r \in Opens THEN "failed" ELSE "dropped") /\ UNCHANGED life
    /\ UNCHANGED <<fuse, handles, slots>>

\* The call returns and the lock is released.  A caller that went away makes
\* it fail; an open that is delivered gives the kernel its handle.
SendEnds(r) ==
    /\ reply[r] = "sending"
    /\ life' = [life EXCEPT !.readers = @ \ {r}]
    /\ \/ /\ ReplyBecomes(r, "answered")
          /\ fuse' = [Touched(fuse) EXCEPT !.files = IF r \in Opens THEN @ \cup {r} ELSE @]
       \/ /\ ReplyBecomes(r, IF r \in Opens THEN "failed" ELSE "answered")
          /\ fuse' = Touched(fuse)
    /\ UNCHANGED <<handles, slots>>

\* OpenReply::ok until its reply is sent: the handle is registered first,
\* because a release may follow the reply at once.
OpenOk(r) ==
    /\ r \in Opens /\ reply[r] \in {"parked", "moved"}
    /\ IF life.live THEN /\ ReplyBecomes(r, "registered") /\ handles' = handles \cup {r}
                         /\ slots' = Alloc(r)
       ELSE /\ ReplyBecomes(r, "dropped") /\ UNCHANGED handles
            /\ slots' = Free(Alloc(r), {r})
    /\ UNCHANGED <<fuse, life>>

\* The device refuses the open, or drops the reply, which answers EIO.
OpenRefused(r) ==
    /\ r \in Opens /\ reply[r] \in {"parked", "moved"}
    /\ ReplyBecomes(r, IF life.live THEN "answered" ELSE "dropped")
    /\ fuse' = IF life.live THEN Touched(fuse) ELSE fuse
    /\ UNCHANGED <<handles, slots, life>>

\* Mutant: the handle is freed whether or not it is still registered.
OpenFailedAlways(r) ==
    /\ reply[r] = "failed" /\ ReplyBecomes(r, "dropped")
    /\ handles' = handles \ {r}
    /\ slots' = Free(slots, {r})
    /\ UNCHANGED <<fuse, life>>

\* The kernel never saw the handle: it is freed, unless shutdown has it.
OpenFailed(r) ==
    /\ reply[r] = "failed" /\ ReplyBecomes(r, "dropped")
    /\ handles' = handles \ {r}
    /\ slots' = Free(slots, handles \cap {r})
    /\ UNCHANGED <<fuse, life>>

-------------------------------------------------------------------------------
(* Shutdown.                                                                 *)

\* stop: the exit flag, then one signal to the loop's thread, which interrupts
\* a read it is blocked in and is otherwise spent.
Stop ==
    /\ life.phase = "running" /\ life.stops < MaxStops
    /\ fuse' = [fuse EXCEPT !.exit = TRUE, !.loop = IF @ = "reading" THEN "checking" ELSE @]
    /\ life' = [life EXCEPT !.stops = @ + 1]
    /\ UNCHANGED <<reply, handles, slots>>

\* finish: join, then the device is dropped, and with it the parked replies.
DropDevice ==
    /\ life.phase = "running" /\ life.stops > 0 /\ fuse.loop = "ended"
    /\ LET parked == {r \in Requests : reply[r] = "parked"}
       IN  /\ reply' = [r \in Requests |-> IF r \in parked THEN "answered" ELSE reply[r]]
           /\ fuse' = IF parked = {} THEN fuse ELSE Touched(fuse)
    /\ life' = [life EXCEPT !.phase = "dropped"]
    /\ UNCHANGED <<handles, slots>>

\* The write lock waits for the replies that are being sent.
Kill ==
    /\ life.phase = "dropped" /\ life.readers = {}
    /\ life' = [life EXCEPT !.phase = "killed", !.live = FALSE]
    /\ UNCHANGED <<fuse, reply, handles, slots>>

Drain ==
    /\ life.phase = "killed"
    /\ handles' = {} /\ slots' = Free(slots, handles)
    /\ life' = [life EXCEPT !.phase = "drained"]
    /\ UNCHANGED <<fuse, reply>>

Teardown ==
    /\ life.phase = "drained"
    /\ fuse' = [fuse EXCEPT !.torn = TRUE, !.files = {}]
    /\ life' = [life EXCEPT !.phase = "done"]
    /\ UNCHANGED <<reply, handles, slots>>

-------------------------------------------------------------------------------
CuseInit ==
    /\ fuse = [loop |-> "checking", exit |-> FALSE, files |-> {}, torn |-> FALSE, late |-> FALSE]
    /\ reply = [r \in Requests |-> "none"] /\ handles = {}
    /\ slots = [h \in Opens |-> [made |-> 0, freed |-> 0]]
    /\ life = [live |-> TRUE, readers |-> {}, phase |-> "running", stops |-> 0]

CuseNext ==
    \/ LoopChecks \/ LoopBlocks \/ Stop \/ DropDevice \/ Kill \/ Drain \/ Teardown
    \/ \E r \in Requests : Dispatch(r) \/ Interrupt(r) \/ SendBegins(r) \/ SendEnds(r)
                           \/ OpenOk(r) \/ OpenRefused(r) \/ OpenFailed(r)
    \/ \E h \in Opens : Release(h)

CuseSpec == CuseInit /\ [][CuseNext]_cuseVars

\* Every thread runs; the kernel need not send anything, and the owner of the
\* session stops it at some time.
CuseFairSpec ==
    /\ CuseSpec
    /\ WF_cuseVars(LoopChecks) /\ WF_cuseVars(LoopBlocks) /\ WF_cuseVars(Stop)
    /\ WF_cuseVars(DropDevice) /\ WF_cuseVars(Kill) /\ WF_cuseVars(Drain) /\ WF_cuseVars(Teardown)
    /\ \A r \in Requests : WF_cuseVars(SendEnds(r))

-------------------------------------------------------------------------------
(* Properties.                                                               *)

\* Shutdown (finish, OpenReply::ok, RawReply::send): no reply reaches libfuse
\* after the session is torn down, the handle of an open file is freed at most
\* once and never while the kernel may still name it, and when shutdown is over
\* every handle has been freed, whatever other threads still do with a reply.
TornDownCleanly ==
    /\ ~fuse.late
    /\ \A h \in Opens :
         /\ slots[h].freed <= slots[h].made /\ slots[h].made <= 1
         /\ fuse.loop # "ended" /\ h \in fuse.files => slots[h].freed = 0
         /\ life.phase = "done" => slots[h].freed = slots[h].made

\* "Requests shutdown and waits for the service thread to finish": a session
\* that was stopped is torn down.
StopEnds == <>fuse.torn
===============================================================================
