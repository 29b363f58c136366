-------------------------------- MODULE Room --------------------------------
(***************************************************************************)
(* The core of the room server: the queue (src/src/queue.mjs), the open    *)
(* turns of the turn log (turns.mjs), the seat table (seats.mjs), the      *)
(* delegation bookkeeping (delegation.mjs) and the handlers of web.mjs,    *)
(* admin.mjs and workers.mjs that drive them.                              *)
(*                                                                         *)
(* Node runs each handler to completion, so a handler is one action. What  *)
(* interleaves is which handler runs next: requests, hooks, feed closes,   *)
(* verification results and administration, in any order.                  *)
(***************************************************************************)
EXTENDS Naturals, Sequences

CONSTANTS
    Agents,     \* handles an agent seat may have
    Local,      \* LOCAL_DEST, and every handle that names the local channel
    MaxMsgs,    \* bound: addressed messages accepted in a behaviour
    MaxMints,   \* bound: members a handle is given to after its first
    Upsets      \* which disturbances the environment may cause

Dests == Agents \cup {Local}
Ids   == 1 .. MaxMsgs

\* Members are told apart by the handle they hold and which of its holders they
\* are: a handle is free again once its member is removed, an id never is.
Members == 0 .. MaxMints

Kinds == {"chat", "reasoning", "execution"}   \* the last two are delegations

AllUpsets == {"midturn",   \* a feed drops while its seat is running a turn
              "remove",    \* a seat is removed, stopped, banned or re-tokened
              "clear",     \* the owner empties the queue
              "pause",     \* the owner pauses and resumes the room
              "disk"}      \* a write of the store throws

ASSUME RoomAssumption == /\ Local \notin Agents
                         /\ MaxMsgs \in Nat /\ MaxMints \in Nat
                         /\ Upsets \subseteq AllUpsets

VARIABLES
    roster,     \* per handle: is there such an agent member, and may it be delegated to
    holder,     \* per handle: the member that holds it, or held it last
    feed,       \* per handle: its seat; "ending" is evicted, with the close still to
                \* come; "uncut" outlives its member, whose removal could not be saved
    seatOf,     \* per handle: the member whose request opened that feed
    paused,     \* config.paused
    msg,        \* accepted messages in order of acceptance; a message's id is its index,
                \* and "for" the member that held the handle when it was accepted
    pending,    \* Queue.#pending. Messages are only ever appended, so its order is id order
    inflight,   \* Queue.#inflight (and #busy, which changes with it); {} is idle
    openTurn,   \* TurnLog.#openByDest, as the msgIds of the open turn; {} is none
    owed,       \* PendingDelegations: delegations still to be answered
    verifying,  \* delegations taken from owed whose tests are running
    reports,    \* history: terminal reports published per delegation
    ended,      \* history: messages of turns a Stop hook ended
    rejected,   \* history: messages a 'rejected' event was published for
    dropped     \* history: messages discarded by clearQueue

queueVars == <<pending, inflight, openTurn, rejected>>
seatVars  == <<roster, holder, feed, seatOf>>
deleVars  == <<owed, verifying, reports>>
vars == <<seatVars, paused, msg, queueVars, deleVars, ended, dropped>>

\* The roster is what members.json held; everything else starts empty.
Init == /\ roster   \in [Agents -> {"absent", "private", "delegatable"}]
        /\ holder   = [h \in Agents |-> 0]
        /\ feed     = [h \in Agents |-> "offline"]
        /\ seatOf   = [h \in Agents |-> 0]
        /\ paused   = FALSE
        /\ msg      = <<>>
        /\ pending  = {}
        /\ inflight = [d \in Dests |-> {}]
        /\ openTurn = [d \in Dests |-> {}]
        /\ owed = {} /\ verifying = {} /\ reports = [m \in Ids |-> 0]
        /\ ended = {} /\ rejected = {} /\ dropped = {}

-----------------------------------------------------------------------------
(* The queue *)

\* #destinationOf, evaluated when a turn begins and not when the message was
\* accepted: a handle no longer on the roster means the local channel.
DestOf(x) == IF x \in Agents /\ roster[x] = "absent" THEN Local ELSE x

\* Mutant: only the newest message of a destination.
ForNewest(ms, p, d) == {m \in p : /\ DestOf(ms[m].to) = d
                                  /\ \A k \in p : DestOf(ms[k].to) = d => k <= m}

\* The messages of p that would ride in a turn of d.
For(ms, p, d) == {m \in p : DestOf(ms[m].to) = d}

\* Somewhere to deliver to: the local channel, or a seat still registered.
Deliverable(d) == d = Local \/ (d \in Agents /\ feed[d] # "offline")

\* Mutant: a busy destination is not skipped.
IdleOrNot(ms, p, f) == {d \in Dests : For(ms, p, d) # {}}

\* Destinations with something waiting and nothing in flight.
Idle(ms, p, f) == {d \in Dests : f[d] = {} /\ For(ms, p, d) # {}}

\* drain(), from queue p, turns f in flight and turns o open. beginTurn takes
\* the oldest message whose destination is idle, with everything else waiting
\* for that destination. If its seat has gone the batch is rejected and drain
\* starts over; otherwise one turn starts, and drain returns.
Drain(ms, p, f, o) ==
    LET idle    == Idle(ms, p, f)
        Ahead(d, e) == \E m \in For(ms, p, d) : \A k \in For(ms, p, e) : m < k
        starts  == {d \in idle : /\ Deliverable(d)
                                 /\ \A e \in idle \ {d} : Deliverable(e) => Ahead(d, e)}
        refused == {d \in idle : ~Deliverable(d) /\ \A e \in starts : Ahead(d, e)}
        Batch(D) == UNION {For(ms, p, d) : d \in D}
    IN  /\ pending'  = p \ Batch(starts \cup refused)
        /\ inflight' = [d \in Dests |-> IF d \in starts THEN For(ms, p, d) ELSE f[d]]
        /\ openTurn' = [d \in Dests |-> IF d \in starts THEN For(ms, p, d) ELSE o[d]]
        /\ rejected' = rejected \cup Batch(refused)

\* Queue.submit takes the message. Which members may address which seat, the
\* rate window and the token budget only ever refuse more; they leave no trace
\* here.
Admits(x) == ~paused /\ Deliverable(x) /\ (x \in Agents => roster[x] # "absent")

New == Len(msg) + 1

Submit(x, k) == /\ Admits(x)
                /\ Len(msg) < MaxMsgs
                /\ msg' = Append(msg, [to   |-> x, kind |-> k,
                                       for  |-> IF x = Local THEN 0 ELSE holder[x]])

Queued == pending' = pending \cup {New} /\ UNCHANGED <<inflight, openTurn, rejected>>

-----------------------------------------------------------------------------
(* Delegations *)

\* Mutant: take does not remove.
ResolveNotTaken(turn) ==
    LET taken == owed \cap turn
        tested == {m \in taken : msg[m].kind = "execution"}
    IN  /\ owed' = owed
        /\ verifying' = verifying \cup tested
        /\ reports' = [m \in Ids |-> IF m \in taken \ tested THEN reports[m] + 1 ELSE reports[m]]

\* The records of a turn that is answered or given up are taken at once. A
\* class with nothing to verify is reported in the same step; an execution
\* brief is reported when its tests settle.
Resolve(turn) ==
    LET taken == owed \cap turn
        tested == {m \in taken : msg[m].kind = "execution"}
    IN  /\ owed' = owed \ taken
        /\ verifying' = verifying \cup tested
        /\ reports' = [m \in Ids |-> IF m \in taken \ tested THEN reports[m] + 1 ELSE reports[m]]

\* The delegate tool and POST /api/delegate, for a valid brief.
Delegate(h, k) ==
    /\ h \in Agents /\ roster[h] = "delegatable"
    /\ Submit(h, k)
    /\ owed' = owed \cup {New}
    /\ Drain(msg', pending \cup {New}, inflight, openTurn)
    /\ UNCHANGED <<seatVars, paused, verifying, reports, ended, dropped>>

\* store.appendMessage throws after the message was queued: the orchestrator
\* gets an error, no record is kept and nothing is drained.
DelegateUnsaved(h, k) ==
    /\ "disk" \in Upsets
    /\ h \in Agents /\ roster[h] = "delegatable"
    /\ Submit(h, k)
    /\ Queued
    /\ UNCHANGED <<seatVars, paused, deleVars, ended, dropped>>

\* The promise of verifyDelegation settles, either way: one report.
VerifyDone(m) ==
    /\ m \in verifying
    /\ verifying' = verifying \ {m}
    /\ reports' = [reports EXCEPT ![m] = @ + 1]
    /\ UNCHANGED <<seatVars, paused, msg, queueVars, owed, ended, dropped>>

-----------------------------------------------------------------------------
(* Members and the agents' own requests *)

\* POST /msg and POST /upload, from a member who may address x. A refusal
\* changes nothing.
Msg(x) ==
    /\ Submit(x, "chat")
    /\ Drain(msg', pending \cup {New}, inflight, openTurn)
    /\ UNCHANGED <<seatVars, paused, deleVars, ended, dropped>>

\* broadcastMessage throws: the sender is answered 500, the message stays queued.
MsgUnsaved(x) ==
    /\ "disk" \in Upsets
    /\ Submit(x, "chat")
    /\ Queued
    /\ UNCHANGED <<seatVars, paused, deleVars, ended, dropped>>

\* POST /seat/reply. It needs the seat's token, not its feed.
SeatReply(h) ==
    /\ roster[h] # "absent"
    /\ Resolve(inflight[h])
    /\ UNCHANGED <<seatVars, paused, msg, queueVars, ended, dropped>>

MayHook(d) == d \in Agents => roster[d] # "absent"

\* Mutant: the Stop handler forgets to drain.
StopNoDrain(d) ==
    /\ MayHook(d)
    /\ ended' = ended \cup inflight[d]
    /\ inflight' = [inflight EXCEPT ![d] = {}]
    /\ openTurn' = [openTurn EXCEPT ![d] = {}]
    /\ UNCHANGED <<seatVars, paused, msg, pending, rejected, deleVars, dropped>>

\* The Stop hook: close the destination's open turn, end its turn in the
\* queue, drain. It names no turn: whatever is in flight ends.
Stop(d) ==
    /\ MayHook(d)
    /\ ended' = ended \cup inflight[d]
    /\ Drain(msg, pending, [inflight EXCEPT ![d] = {}], [openTurn EXCEPT ![d] = {}])
    /\ UNCHANGED <<seatVars, paused, msg, deleVars, dropped>>

\* saveTurns throws inside the Stop handler, after turns.close and before
\* queue.endTurn; the route swallows it and answers 200.
StopUnsaved(d) ==
    /\ "disk" \in Upsets
    /\ MayHook(d)
    /\ openTurn' = [openTurn EXCEPT ![d] = {}]
    /\ UNCHANGED <<seatVars, paused, msg, pending, inflight, rejected, deleVars,
                   ended, dropped>>

-----------------------------------------------------------------------------
(* Seats *)

\* GET /seat/events: Seats.join. Nothing is drained.
SeatConnect(h) ==
    /\ roster[h] # "absent" /\ feed[h] = "offline"
    /\ feed' = [feed EXCEPT ![h] = "online"]
    /\ seatOf' = [seatOf EXCEPT ![h] = holder[h]]
    /\ UNCHANGED <<roster, holder, paused, msg, queueVars, deleVars, ended, dropped>>

\* Mutant: the turn is given up without telling anyone.
SeatCloseUntold(h) ==
    /\ feed[h] # "offline"
    /\ feed' = [feed EXCEPT ![h] = "offline"]
    /\ seatOf' = [seatOf EXCEPT ![h] = 0]
    /\ inflight' = [inflight EXCEPT ![h] = {}]
    /\ openTurn' = [openTurn EXCEPT ![h] = {}]
    /\ Resolve(inflight[h])
    /\ UNCHANGED <<roster, holder, paused, msg, pending, rejected, ended, dropped>>

\* The feed's close handler: Seats.leave, then abandonTurn for the turn in
\* flight, if any. Nothing is drained.
SeatClose(h) ==
    /\ feed[h] # "offline"
    /\ feed[h] = "ending" \/ inflight[h] = {} \/ "midturn" \in Upsets
    /\ feed' = [feed EXCEPT ![h] = "offline"]
    /\ seatOf' = [seatOf EXCEPT ![h] = 0]
    /\ inflight' = [inflight EXCEPT ![h] = {}]
    /\ openTurn' = IF inflight[h] = {} THEN openTurn ELSE [openTurn EXCEPT ![h] = {}]
    /\ rejected' = rejected \cup inflight[h]
    /\ Resolve(inflight[h])
    /\ UNCHANGED <<roster, holder, paused, msg, pending, ended, dropped>>

-----------------------------------------------------------------------------
(* Administration *)

\* admin invite kind:'agent', or the fleet minting a worker: a new member on a
\* handle nobody holds. The member is on the roster even if the save throws.
Mint(h, r) ==
    /\ "remove" \in Upsets
    /\ roster[h] = "absent" /\ holder[h] < MaxMints /\ r \in {"private", "delegatable"}
    /\ roster' = [roster EXCEPT ![h] = r]
    /\ holder' = [holder EXCEPT ![h] = @ + 1]
    /\ UNCHANGED <<feed, seatOf, paused, msg, queueVars, deleVars, ended, dropped>>

\* Mutant: the feed outlives its member.
NoEvict(h) == UNCHANGED feed

\* Seats.evict goes by the member: a feed left by an earlier holder is not its.
Evict(h) == feed' = [feed EXCEPT ![h] = IF @ = "online" THEN "ending" ELSE @]

\* registry.revoke: the member goes at once; what waits for it stays queued.
Revoke(h) == /\ "remove" \in Upsets
             /\ roster[h] # "absent"
             /\ roster' = [roster EXCEPT ![h] = "absent"]

\* admin remove and ban, and the fleet's stop: the feed is ended in the same
\* step, and its close handler runs later.
Remove(h) ==
    /\ Revoke(h)
    /\ Evict(h)
    /\ UNCHANGED <<holder, seatOf, paused, msg, queueVars, deleVars, ended, dropped>>

\* persistMembers throws between revoke and cutOff: the member has gone, and
\* its feed stays open.
RemoveUnsaved(h) ==
    /\ "disk" \in Upsets
    /\ Revoke(h)
    /\ feed' = [feed EXCEPT ![h] = IF @ = "online" THEN "uncut" ELSE @]
    /\ UNCHANGED <<holder, seatOf, paused, msg, queueVars, deleVars, ended, dropped>>

\* admin rotate, of the seat or of its owner: only the stream is cut, and not
\* even that when the save throws.
Rotate(h) ==
    /\ "remove" \in Upsets
    /\ roster[h] # "absent" /\ feed[h] = "online"
    /\ Evict(h)
    /\ UNCHANGED <<roster, holder, seatOf, paused, msg, queueVars, deleVars,
                   ended, dropped>>

Pause(b) ==
    /\ "pause" \in Upsets
    /\ paused' = b
    /\ UNCHANGED <<seatVars, msg, queueVars, deleVars, ended, dropped>>

ClearQueue ==
    /\ "clear" \in Upsets
    /\ dropped' = dropped \cup pending
    /\ pending' = {}
    /\ UNCHANGED <<seatVars, paused, msg, inflight, openTurn, rejected, deleVars, ended>>

-----------------------------------------------------------------------------
Requests == \/ \E x \in Dests : Msg(x) \/ MsgUnsaved(x)
            \/ \E h \in Agents, k \in Kinds \ {"chat"} : Delegate(h, k) \/ DelegateUnsaved(h, k)
Answers  == \/ \E h \in Agents : SeatReply(h)
            \/ \E d \in Dests : Stop(d) \/ StopUnsaved(d)
            \/ \E m \in Ids : VerifyDone(m)
Comings  == \E h \in Agents : \/ SeatConnect(h) \/ SeatClose(h)
                              \/ Remove(h) \/ RemoveUnsaved(h) \/ Rotate(h)
                              \/ \E r \in {"private", "delegatable"} : Mint(h, r)
Next == Requests \/ Answers \/ Comings \/ ClearQueue \/ \E b \in BOOLEAN : Pause(b)

Spec == Init /\ [][Next]_vars

\* An agent finishes the turn it was given, and an evicted socket closes.
FairSpec == /\ Spec
            /\ \A d \in Dests : WF_vars(inflight[d] # {} /\ Stop(d))
            /\ \A h \in Agents : WF_vars(feed[h] = "ending" /\ SeatClose(h))

-----------------------------------------------------------------------------
(* Properties *)

TypeOK ==
    /\ roster \in [Agents -> {"absent", "private", "delegatable"}]
    /\ holder \in [Agents -> Members] /\ seatOf \in [Agents -> Members]
    /\ feed \in [Agents -> {"offline", "online", "uncut", "ending"}]
    /\ paused \in BOOLEAN
    /\ msg \in Seq([to : Dests, kind : Kinds, for : Members]) /\ Len(msg) <= MaxMsgs
    /\ pending \subseteq Ids
    /\ inflight \in [Dests -> SUBSET Ids]
    /\ openTurn \in [Dests -> SUBSET Ids]
    /\ owed \subseteq Ids /\ verifying \subseteq Ids
    /\ reports \in [Ids -> Nat]
    /\ ended \subseteq Ids /\ rejected \subseteq Ids /\ dropped \subseteq Ids

Running == UNION {inflight[d] : d \in Dests}

\* "A dropped message the sender believes landed is the worst failure this
\* system can have" (queue.mjs): an accepted message is waiting, in flight at
\* one destination, ended, rejected or discarded, and never two of these.
Accounted ==
    /\ 1 .. Len(msg) = pending \cup Running \cup ended \cup rejected \cup dropped
    /\ pending \cap (Running \cup ended \cup rejected \cup dropped) = {}
    /\ Running \cap (ended \cup rejected \cup dropped) = {}
    /\ ended \cap (rejected \cup dropped) = {}
    /\ rejected \cap dropped = {}
    /\ \A d, e \in Dests : d # e => inflight[d] \cap inflight[e] = {}

\* Queue and turn log agree: a turn open in the log is the turn in flight, so
\* replies and tool activity never land on a turn that is over.
LogFollowsQueue == \A d \in Dests : openTurn[d] # {} => openTurn[d] = inflight[d]

\* The member a message was addressed to has left the roster for good.
AddresseeGone(r) == r.to # Local /\ (roster[r.to] = "absent" \/ holder[r.to] # r.for)

\* "Hand one person's message to another person's account" (web.mjs): a turn's
\* destination is computed from the roster of that moment, by handle. A message
\* whose addressee is still a member goes out over that member's own feed,
\* whatever drops, rejoins or is removed in between (a feed already ended
\* carries nothing); a message whose addressee has been removed goes to the
\* host's session or to the next holder of the handle, and nowhere else. A feed
\* left open by a removal that could not be saved is the exception.
HandedAsAddressed ==
    [][\A d \in Dests : \A m \in inflight'[d] \ inflight[d] :
          LET r == msg'[m]
          IN  \/ AddresseeGone(r) /\ d \in {Local, r.to}
              \/ r.to = d /\ (d # Local /\ feed[d] = "online" => r.for = seatOf[d])]_vars

\* No message overtakes an older one to the same addressee, across busy
\* destinations, refused batches and removed seats.
Fifo == \A m \in pending : \A k \in 1 .. Len(msg) :
            m < k /\ msg[k].to = msg[m].to => k \in pending

\* "A delegation is answered exactly once": though replies, closes and
\* verifications race for it, at most one terminal report is published, and
\* none while the record is still owed or its tests are running.
AnsweredOnce ==
    /\ owed \cup verifying \subseteq 1 .. Len(msg)
    /\ owed \cap verifying = {}
    /\ \A m \in Ids : /\ reports[m] <= 1
                      /\ m \in owed \cup verifying \/ m > Len(msg) => reports[m] = 0

\* "Position is not identity": a record is taken only while the message that
\* carries it is in flight, never while it waits behind another turn.
TakenInFlight == [][\A m \in owed \ owed' : m \in Running]_vars

\* The room implements MessageLife.
InHand(m) == \E d \in Dests : m \in inflight[d]
fate == [m \in Ids |-> CASE m \in ended    -> "ended"
                         [] m \in rejected -> "rejected"
                         [] m \in dropped  -> "dropped"
                         [] InHand(m)      -> "running"
                         [] m \in pending  -> "queued"
                         [] OTHER          -> "new"]

Life == INSTANCE MessageLife WITH running <- inflight

LifeSpec == Life!Spec

\* Every message accepted is eventually started or given up, while no turn is
\* given up: a feed that drops in mid-turn leaves what waited behind its turn to
\* the next request.
QueuedEventuallyStarts == \A m \in Ids : (m \in pending) ~> (m \notin pending)

-----------------------------------------------------------------------------
(* What comments of the repository say and the code does not do *)

\* "Draining never merges messages addressed to different seats (or a seat and
\* the local channel) into one batch" (queue.mjs).
OneAddresseePerTurn ==
    \A d \in Dests : \A m, k \in inflight[d] : msg[m].to = msg[k].to

\* "Whoever is tracking work in flight needs to hear that this turn's messages
\* will never be answered" (web.mjs): a delegation the room has rejected is no
\* longer owed.
RejectedIsNotOwed == owed \cap rejected = {}
=============================================================================
