------------------------------ MODULE FsShare ------------------------------
(***************************************************************************)
(* The in-process virtio-fs server (fs/in_process.rs): the request queue   *)
(* and the ReadOnlyFs wrapper around the passthrough file system.          *)
(*                                                                         *)
(* The guest queues FUSE requests and kicks, unless the server has turned  *)
(* kicks off; a pass of the server takes every queued request, answers     *)
(* them one after the other and, with EVENT_IDX, looks again before it     *)
(* waits.  A request it cannot decode or answer ends the worker.           *)
(*                                                                         *)
(* Files are one host tree that is clean or has been changed; a handle or  *)
(* a mapping is for reading or for writing.  External: the passthrough     *)
(* file system, the queue of the vhost-user crates.                        *)
(***************************************************************************)
EXTENDS Naturals, Sequences

CONSTANT MaxRequests        \* bound: requests of the guest

\* open(2) flags as far as they decide about writing, one at a time.
OpenFlags == {{}} \cup {{f} : f \in {"wronly", "rdwr", "trunc", "append", "creat"}}

\* FUSE requests: the mutating opcodes and the read-only ones as one each,
\* those whose arguments decide, and the write that needs a handle for it.
Requests ==
    [op : {"lookup", "mutate", "write"}, flags : {{}}]
        \cup [op : {"open"}, flags : OpenFlags]
        \cup [op : {"setupmapping"}, flags : {{}, {"write"}}]

VARIABLES
    readOnly,   \* the share is mounted read-only
    fsEventIdx,   \* EVENT_IDX was negotiated
    queued,     \* the requests in the available ring
    batch,      \* the ones the current pass took
    unanswered, \* requests the guest waits for
    fsKicked,     \* a kick is pending
    fsMasked,     \* kicks are turned off
    fsThread,     \* "wait", "pass", "look" or "dead"
    tree,       \* the host directory: "clean" or "changed"
    writable,   \* the guest has a handle or a mapping to write through
    requested

fsVars == <<readOnly, fsEventIdx, queued, batch, unanswered, fsKicked, fsMasked, fsThread,
            tree, writable, requested>>

FsTypeOK ==
    /\ readOnly \in BOOLEAN /\ fsEventIdx \in BOOLEAN
    /\ queued \in Seq(Requests) /\ batch \in Seq(Requests)
    /\ unanswered \in 0 .. MaxRequests /\ requested \in 0 .. MaxRequests
    /\ fsKicked \in BOOLEAN /\ fsMasked \in BOOLEAN
    /\ fsThread \in {"wait", "pass", "look", "dead"}
    /\ tree \in {"clean", "changed"} /\ writable \in BOOLEAN
    /\ batch # << >> => fsThread \in {"pass", "dead"}
    /\ fsThread # "dead" => unanswered = Len(queued) + Len(batch)

FsInit ==
    /\ readOnly \in BOOLEAN /\ fsEventIdx \in BOOLEAN
    /\ queued = << >> /\ batch = << >> /\ unanswered = 0 /\ requested = 0
    /\ fsKicked = FALSE /\ fsMasked = FALSE /\ fsThread = "wait"
    /\ tree = "clean" /\ writable = FALSE

-----------------------------------------------------------------------------
(* The guest. *)

Submit(r) ==
    /\ requested < MaxRequests /\ requested' = requested + 1
    /\ queued' = Append(queued, r) /\ unanswered' = unanswered + 1
    /\ fsKicked' = (fsKicked \/ ~fsMasked)
    /\ UNCHANGED <<readOnly, fsEventIdx, batch, fsMasked, fsThread, tree, writable>>

\* A store through a mapping, or a write of dirty pages: no request is seen.
GuestWrites ==
    /\ writable /\ tree = "clean"
    /\ tree' = "changed"
    /\ UNCHANGED <<readOnly, fsEventIdx, queued, batch, unanswered, fsKicked, fsMasked,
                   fsThread, writable, requested>>

-----------------------------------------------------------------------------
(* handle_event and process_queue. *)

\* process_queue collects all the available chains.
TakenChains == queued

HandleEvent ==
    /\ fsThread = "wait" /\ fsKicked
    /\ fsKicked' = FALSE /\ fsThread' = "pass" /\ fsMasked' = fsEventIdx
    /\ batch' = TakenChains /\ queued' = << >>
    /\ UNCHANGED <<readOnly, fsEventIdx, unanswered, tree, writable, requested>>

\* open_flags_imply_write
FlagsImplyWrite(f) == f \cap {"wronly", "rdwr", "trunc", "append", "creat"} # {}

\* The requests ReadOnlyFs answers with EROFS.
Refused(r) ==
    \/ r.op \in {"mutate", "write"}
    \/ r.op = "open" /\ FlagsImplyWrite(r.flags)
    \/ r.op = "setupmapping" /\ "write" \in r.flags

\* The wrapper hands everything else to the passthrough file system.
Delegated(r) == ~readOnly \/ ~Refused(r)

\* What the passthrough file system does with a request.
Changes(r) ==
    \/ r.op = "mutate"
    \/ r.op = "write" /\ writable
    \/ r.op = "open" /\ "trunc" \in r.flags
Opens(r) ==
    \/ r.op = "open" /\ r.flags \cap {"wronly", "rdwr"} # {}
    \/ r.op = "setupmapping" /\ "write" \in r.flags

\* A request is handled, its descriptor returned and the guest signalled.
Answer ==
    /\ fsThread = "pass" /\ batch # << >>
    /\ LET r == Head(batch) IN
       /\ tree' = IF Delegated(r) /\ Changes(r) THEN "changed" ELSE tree
       /\ writable' = (writable \/ (Delegated(r) /\ Opens(r)))
    /\ batch' = Tail(batch) /\ unanswered' = unanswered - 1
    /\ UNCHANGED <<readOnly, fsEventIdx, queued, fsKicked, fsMasked, fsThread, requested>>

\* The handler failed: the worker thread ends with the batch it holds.
AnswerFails ==
    /\ fsThread = "pass" /\ batch # << >>
    /\ fsThread' = "dead"
    /\ UNCHANGED <<readOnly, fsEventIdx, queued, batch, unanswered, fsKicked, fsMasked, tree,
                   writable, requested>>

PassDone ==
    /\ fsThread = "pass" /\ batch = << >>
    /\ fsThread' = IF fsEventIdx THEN "look" ELSE "wait"
    /\ UNCHANGED <<readOnly, fsEventIdx, queued, batch, unanswered, fsKicked, fsMasked, tree,
                   writable, requested>>

\* Mutant: what enable_notification says is ignored.
LookAgainNot == FALSE
\* enable_notification: kicks are on again, and requests came meanwhile.
LookAgain == queued # << >>

Look ==
    /\ fsThread = "look"
    /\ \/ LookAgain /\ fsMasked' = TRUE /\ fsThread' = "pass"
          /\ batch' = TakenChains /\ queued' = << >>
       \/ ~LookAgain /\ fsMasked' = FALSE /\ fsThread' = "wait"
          /\ UNCHANGED <<batch, queued>>
    /\ UNCHANGED <<readOnly, fsEventIdx, unanswered, fsKicked, tree, writable, requested>>

FsNext ==
    \/ \E r \in Requests : Submit(r)
    \/ GuestWrites \/ HandleEvent \/ Answer \/ AnswerFails \/ PassDone \/ Look

FsWorker == HandleEvent \/ Answer \/ PassDone \/ Look
FsSpec == FsInit /\ [][FsNext]_fsVars /\ WF_fsVars(FsWorker)

-----------------------------------------------------------------------------
(* Properties. *)

\* A read-only share leaves the host directory as it was, whatever requests
\* come in whatever order: no open, mapping or opcode gives the guest a way to
\* write that the later requests, or none at all, would use.
ReadOnlyTreeUntouched == readOnly => tree = "clean"

\* Every request is answered as long as the worker lives: none is left in the
\* queue with kicks turned off and the server waiting for one.
RequestAnswered == []<>(unanswered = 0 \/ fsThread = "dead" \/ requested < MaxRequests)
=============================================================================
