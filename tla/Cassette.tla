------------------------------ MODULE Cassette ------------------------------
(***************************************************************************)
(* The egress proxy's request handler and its cassettes (proxy/handler.rs, *)
(* proxy/doubles.rs, proxy/cassette.rs).                                   *)
(*                                                                         *)
(* The requests of a proxy run as tasks of one thread, which change places *)
(* where they await the upstream and the body of its answer; the test that *)
(* owns the proxy installs doubles and puts the cassette into record or    *)
(* replay mode from another thread meanwhile.  A cassette is a file of     *)
(* lines; an append may be cut short by an error or by the end of the      *)
(* process, and the next one then goes on in the same line.                *)
(*                                                                         *)
(* The answer an upstream gives to a request is named by the request.      *)
(* External: hudsucker, which forwards, and terminates the tunnels.        *)
(***************************************************************************)
EXTENDS Naturals, Sequences, SequencesExt

CONSTANTS
    Reqs,           \* bound: the requests
    CasKeys,        \* interaction keys, of hosts that are not blocked
    Tapes,          \* bound: the paths of cassettes
    MaxTears,       \* bound: appends cut short
    Nil

\* What a request names: an allowed destination, a blocked one, none at all; a
\* CONNECT names the end of a tunnel, and the requests in it come by themselves.
Dests == CasKeys \cup {"blocked", "unnamed", "tunnel"}
Torn == "torn"
NoTape == "no file"

VARIABLES
    slot,       \* the proxy's cassette: mode, path and, in replay, entries
    tapesOpen,  \* a CassetteState that was opened and is not in the slot yet
    tape,       \* the files
    at,         \* where a request is
    dest,       \* what it names
    pendingKey, \* EgressHandler::pending
    answer,     \* what the guest got
    doubles,    \* the keys a test double matches
    served,     \* history: what the replay in the slot has served
    switched,   \* the cassette was changed while a request of it was in flight
    tears

casVars == <<slot, tapesOpen, tape, at, dest, pendingKey, answer, doubles, served,
             switched, tears>>

Off == [mode |-> "none", path |-> Nil, entries |-> << >>]
Lines == [key : CasKeys, ans : Reqs]
States == [mode : {"none", "record", "replay"}, path : Tapes \cup {Nil},
           entries : Seq([key : CasKeys, ans : Reqs, used : BOOLEAN])]
Refusals == {"400", "403", "502", "504"}

CasTypeOK ==
    /\ slot \in States /\ tapesOpen \in States
    /\ \A f \in Tapes : tape[f] = NoTape \/ tape[f] \in Seq(Lines \cup {[key |-> Torn]})
    /\ at \in [Reqs -> {"idle", "cassette", "upstream", "cap", "append", "done"}]
    /\ dest \in [Reqs -> Dests \cup {Nil}]
    /\ pendingKey \in [Reqs -> CasKeys \cup {Nil}]
    /\ answer \in [Reqs -> Reqs \cup Refusals \cup {Nil, "double", "tunnel"}]
    /\ doubles \subseteq CasKeys
    /\ served \in Seq(Lines)
    /\ switched \in BOOLEAN /\ tears \in 0 .. MaxTears
    /\ \A r \in Reqs : at[r] = "done" <=> answer[r] # Nil

CasInit ==
    /\ slot = Off /\ tapesOpen = Off
    /\ tape = [f \in Tapes |-> NoTape]
    /\ at = [r \in Reqs |-> "idle"] /\ dest = [r \in Reqs |-> Nil]
    /\ pendingKey = [r \in Reqs |-> Nil] /\ answer = [r \in Reqs |-> Nil]
    /\ doubles = {} /\ served = << >> /\ switched = FALSE /\ tears = 0

-----------------------------------------------------------------------------
(* A request on its way out: route. *)

casWorld == <<tapesOpen, tape, doubles, switched, tears>>

Answered(r, a) ==
    at' = [at EXCEPT ![r] = "done"] /\ answer' = [answer EXCEPT ![r] = a]

AtStep(r, s) == at' = [at EXCEPT ![r] = s] /\ UNCHANGED answer

\* is_blocked
Denied(d) == d = "blocked"

\* reconstruct and ProxyHandler::route_request: the destination, the deny list,
\* the doubles.
Route(r, d) ==
    /\ at[r] = "idle"
    /\ dest' = [dest EXCEPT ![r] = d]
    /\ \/ d = "unnamed" /\ Answered(r, "400")
       \/ Denied(d) /\ Answered(r, "403")
       \/ d = "tunnel" /\ Answered(r, "tunnel")
       \/ d \in doubles /\ Answered(r, "double")
       \/ d \in CasKeys \ doubles /\ AtStep(r, "cassette")
    /\ UNCHANGED <<casWorld, slot, pendingKey, served>>

\* Mutant: a hit stays where it is.
ConsumedNot(s, i) == s
\* The entry is marked.
Consumed(s, i) == [s EXCEPT !.entries[i].used = TRUE]

\* take_hit: the first entry of the key that was not consumed.
Unused(k) == {i \in DOMAIN slot.entries : slot.entries[i].key = k /\ ~slot.entries[i].used}
FirstUnused(k) == CHOOSE i \in Unused(k) : \A j \in Unused(k) : i <= j

\* cassette_stage.
CassetteStage(r) ==
    LET k == dest[r] IN
    /\ at[r] = "cassette"
    /\ \/ /\ slot.mode = "none" /\ AtStep(r, "upstream")
          /\ UNCHANGED <<slot, pendingKey, served>>
       \/ /\ slot.mode = "record" /\ AtStep(r, "upstream")
          /\ pendingKey' = [pendingKey EXCEPT ![r] = k] /\ UNCHANGED <<slot, served>>
       \/ /\ slot.mode = "replay" /\ Unused(k) # {}
          /\ LET i == FirstUnused(k) IN
             /\ slot' = Consumed(slot, i)
             /\ served' = Append(served, [key |-> k, ans |-> slot.entries[i].ans])
             /\ Answered(r, slot.entries[i].ans)
          /\ UNCHANGED pendingKey
       \/ /\ slot.mode = "replay" /\ Unused(k) = {} /\ Answered(r, "504")
          /\ UNCHANGED <<slot, pendingKey, served>>
    /\ UNCHANGED <<casWorld, dest>>

-----------------------------------------------------------------------------
(* The response on its way back: respond, record_response. *)

\* The upstream answers; or it does not, and hudsucker says so itself.
Upstream(r) ==
    /\ at[r] = "upstream"
    /\ \/ pendingKey[r] = Nil /\ Answered(r, r)
       \/ pendingKey[r] # Nil /\ AtStep(r, "cap")
       \/ Answered(r, "502")
    /\ UNCHANGED <<casWorld, slot, dest, pendingKey, served>>

\* The cap is the slot's, and the body is collected up to it.
Collect(r) ==
    /\ at[r] = "cap"
    /\ AtStep(r, "append") \/ Answered(r, "502")
    /\ UNCHANGED <<casWorld, slot, dest, pendingKey, served>>

\* writeln! at the end of the file: a line that was cut short takes it in.
Appended(s, l) == IF s # << >> /\ Last(s).key = Torn THEN s ELSE Append(s, l)

\* hudsucker clones the handler for each request.
PendingKey(r) == pendingKey[r]

\* CassetteState::append, to whatever is in the slot by now: a no-op in replay.
\* Then the log and the guest.
AppendTape(r) ==
    LET f == slot.path IN
    /\ at[r] = "append"
    /\ \/ /\ slot.mode = "replay"
          /\ Answered(r, r)
          /\ UNCHANGED <<tape, tears>>
       \/ /\ slot.mode = "record"
          /\ tape' = [tape EXCEPT ![f] = Appended(@, [key |-> PendingKey(r), ans |-> r])]
          /\ Answered(r, r) /\ UNCHANGED tears
       \/ /\ slot.mode = "record" /\ tears < MaxTears /\ tears' = tears + 1
          /\ tape' = [tape EXCEPT ![f] = Appended(@, [key |-> Torn])]
          /\ Answered(r, "502")
    /\ switched' = (switched \/ tapesOpen # Off)
    /\ UNCHANGED <<slot, tapesOpen, dest, pendingKey, doubles, served>>

-----------------------------------------------------------------------------
(* The test that owns the proxy. *)

casTasks == <<at, dest, pendingKey, answer>>

InstallDouble(k) ==
    /\ k \notin doubles /\ doubles' = doubles \cup {k}
    /\ UNCHANGED <<casTasks, slot, tapesOpen, tape, served, switched, tears>>

\* create_new
Fresh(f) == tape[f] = NoTape

\* open_record
OpenRecord(f) ==
    /\ tapesOpen = Off /\ Fresh(f)
    /\ tape' = [tape EXCEPT ![f] = << >>]
    /\ tapesOpen' = [mode |-> "record", path |-> f, entries |-> << >>]
    /\ UNCHANGED <<casTasks, slot, doubles, served, switched, tears>>

\* parse_cassette: every line is an interaction, and there is one.
Parsed(s) == s # << >> /\ \A i \in DOMAIN s : s[i].key # Torn

\* open_replay reads the file as it is now.
OpenReplay(f) ==
    /\ tapesOpen = Off /\ tape[f] # NoTape /\ tape[f] # << >> /\ Parsed(tape[f])
    /\ tapesOpen' = [mode |-> "replay", path |-> f,
                  entries |-> [i \in DOMAIN SelectSeq(tape[f], LAMBDA l : l.key # Torn) |->
                     LET l == SelectSeq(tape[f], LAMBDA x : x.key # Torn)[i]
                     IN  [key |-> l.key, ans |-> l.ans, used |-> FALSE]]]
    /\ UNCHANGED <<casTasks, slot, tape, doubles, served, switched, tears>>

\* Some request has the key of a recording.
InFlight == \E r \in Reqs : pendingKey[r] # Nil /\ at[r] # "done"

SetSlot ==
    /\ tapesOpen # Off
    /\ slot' = tapesOpen /\ tapesOpen' = Off /\ served' = << >>
    /\ switched' = (switched \/ InFlight)
    /\ UNCHANGED <<casTasks, tape, doubles, tears>>

\* The process is killed, within an append or not; the files stay, and the next
\* test starts a proxy of its own.
EndOfProcess ==
    /\ slot # Off
    /\ slot' = Off /\ tapesOpen' = Off /\ served' = << >> /\ doubles' = {}
    /\ at' = [r \in Reqs |-> IF at[r] = "idle" THEN "idle" ELSE "done"]
    /\ answer' = [r \in Reqs |-> IF at[r] \in {"idle", "done"} THEN answer[r] ELSE "502"]
    /\ \/ UNCHANGED <<tape, tears>>
       \/ /\ tears < MaxTears /\ tears' = tears + 1
          /\ slot.mode = "record" /\ \E r \in Reqs : at[r] = "append"
          /\ tape' = [tape EXCEPT ![slot.path] = Appended(@, [key |-> Torn])]
    /\ UNCHANGED <<dest, pendingKey, switched>>

CasNext ==
    \/ \E r \in Reqs, d \in Dests : Route(r, d)
    \/ \E r \in Reqs : CassetteStage(r) \/ Upstream(r) \/ Collect(r) \/ AppendTape(r)
    \/ \E k \in CasKeys : InstallDouble(k)
    \/ \E f \in Tapes : OpenRecord(f) \/ OpenReplay(f)
    \/ SetSlot \/ EndOfProcess

CasSpec == CasInit /\ [][CasNext]_casVars

-----------------------------------------------------------------------------
(* Properties. *)

OfKey(s, k) == SelectSeq(s, LAMBDA l : l.key = k)

\* Replay serves the answers of a key in the order they were recorded, each of
\* them once, however the requests of the replaying run interleave: "a run that
\* recorded three answers for a key replays those three answers in that order".
ReplayInOrder ==
    slot.mode = "replay" =>
        \A k \in CasKeys : LET all == OfKey(tape[slot.path], k) IN
            IsPrefix(OfKey(served, k), all)

\* While nothing is switched under a request, a guest that was given an upstream
\* answer by a recording proxy has it on the tape, under the key it will be asked
\* for, unless the tape has a line cut short and no replay will take it: a guest
\* whose own append failed was told.
NothingDropped ==
    ~switched =>
        \A r \in Reqs : pendingKey[r] # Nil /\ answer[r] = r =>
            \E f \in Tapes : tape[f] # NoTape
                /\ \E i \in DOMAIN tape[f] :
                        tape[f][i] \in {[key |-> dest[r], ans |-> r], [key |-> Torn]}

\* A tape holds real interactions only, each of them once: no double's answer, no
\* refusal, no replayed answer, and nothing of a request that names another key.
OnlyRealInteractions ==
    \A f \in Tapes : tape[f] # NoTape =>
        \A i \in DOMAIN tape[f] : tape[f][i].key # Torn =>
            /\ dest[tape[f][i].ans] = tape[f][i].key
            /\ answer[tape[f][i].ans] = tape[f][i].ans
            /\ \A j \in DOMAIN tape[f] : tape[f][j] = tape[f][i] => j = i

\* A tape that some append was cut short on is refused as a whole: what replay
\* serves is everything the proxy said it recorded there, never a tape with gaps.
ReplayIsComplete ==
    slot.mode = "replay" /\ ~switched =>
        \A i \in DOMAIN tape[slot.path] :
            tape[slot.path][i].key # Torn /\ i <= Len(slot.entries)
                /\ slot.entries[i].ans = tape[slot.path][i].ans

\* A tape is what happened, and its replay is the tape.
CassetteSafe ==
  /\ CasTypeOK
  /\ ReplayInOrder
  /\ NothingDropped
  /\ OnlyRealInteractions
  /\ ReplayIsComplete
=============================================================================
