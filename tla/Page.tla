-------------------------------- MODULE Page --------------------------------
(***************************************************************************)
(* The room's page in members' browsers (src/src/ui.mjs), with what it is made  *)
(* of: the answers of /api/state, the frames of /events (bus.mjs), and the       *)
(* permission prompts of the host's session that approvers settle on it          *)
(* (permissions.mjs, server.mjs, channel.mjs, /verdict in web.mjs).              *)
(*                                                                         *)
(* Answers and frames come over different connections and pass each other. The   *)
(* page takes any answer for the newest and applies any frame to what it shows.  *)
(* A page whose EventSource is down gets nothing of what is published meanwhile. *)
(***************************************************************************)
EXTENDS Naturals, Sequences

CONSTANTS Members,            \* the people of the room
          Pages,              \* those whose page is modelled; the others' may do anything
          Approvers,          \* those who may approve at first
          MaxAsks,            \* prompts of the session
          MaxTurns,           \* turns of the agent, and other news
          MaxMessages,        \* messages of the room
          MaxRecent,          \* messages in an answer of /api/state: the newest
          MaxLoads,           \* answers of /api/state on their way to a page
          MaxUpsets,          \* upsets in one behaviour
          Upsets              \* what may go wrong

\* "cut": a stream breaks; "role": a member becomes an approver, or is one no more;
\* "remove": a member is removed; "restart": the room starts again.
Kinds == {"cut", "role", "remove", "restart"}

ASSUME PageAssumption ==
    /\ Pages \subseteq Members /\ Approvers \subseteq Members /\ Upsets \subseteq Kinds
    /\ {MaxAsks, MaxTurns, MaxMessages, MaxLoads, MaxUpsets} \subseteq Nat
    /\ MaxRecent \in Nat \ {0}

Ids == 1..MaxAsks             \* the prompts

VARIABLES
    role,       \* of each member: "approver", "member" or "gone"
    prompts,    \* PermissionBroker: what became of each prompt of the session
    sent,       \* the verdicts sent to the session, in order
    busy,       \* the agent is at a turn
    turns,      \* bound
    messages,   \* the transcript: how many
    phase,      \* of each page: "gate", "loading", "connecting", "live"
    frames,     \* what is on its way on each page's stream
    asked,      \* requests for the state that the room has not served
    answers,    \* those served and not arrived, in the order of service
    shown,      \* each page: may its member approve, how many cards there are of each
                \* prompt, is the agent working
    stream,     \* each page: the messages in it
    posts,      \* verdicts on their way to the room
    replies,    \* what the room answered to them
    stale,      \* history: a page shows an answer older than something it was told,
                \* or should have been
    lost,       \* history: a message was published while a page could not hear it
    early,      \* history: a page shows an answer that came before a frame it tells of
    upsets      \* bound

room    == <<role, prompts, sent, busy, turns, messages>>
link    == <<phase, frames, asked, answers>>
clicks  == <<posts, replies>>
history == <<stale, lost, early>>
vars    == <<room, link, shown, stream, clicks, history, upsets>>

Nothing == [can |-> FALSE, cards |-> [id \in Ids |-> 0], busy |-> FALSE]

Init ==
    /\ role = [m \in Members |-> IF m \in Approvers THEN "approver" ELSE "member"]
    /\ prompts = <<>> /\ sent = <<>> /\ busy = FALSE /\ turns = 0 /\ messages = 0
    /\ phase = [p \in Pages |-> "gate"] /\ frames = [p \in Pages |-> <<>>]
    /\ asked = [p \in Pages |-> 0] /\ answers = [p \in Pages |-> <<>>]
    /\ shown = [p \in Pages |-> Nothing] /\ stream = [p \in Pages |-> <<>>]
    /\ posts = {} /\ replies = {}
    /\ stale = [p \in Pages |-> FALSE] /\ lost = [p \in Pages |-> FALSE]
    /\ early = [p \in Pages |-> FALSE]
    /\ upsets = 0

Upset(k) == k \in Upsets /\ upsets < MaxUpsets /\ upsets' = upsets + 1

MayApprove(m) == role[m] = "approver"
Pending == {id \in DOMAIN prompts : prompts[id] = "open"}

----------------------------------------------------------------------------
(* The bus.                                                                *)

Frame(kind, id) == [kind |-> kind, id |-> id]

Outdated(list) == [i \in DOMAIN list |-> [list[i] EXCEPT !.old = TRUE]]

\* A stream gets every frame; what is published without one is never sent.
Publish(f) ==
    frames' = [p \in Pages |-> IF phase[p] = "live" THEN Append(frames[p], f) ELSE frames[p]]

\* ... so that the answers its page has, or has coming, are of the past.
Missed(ps) ==
    /\ stale' = [p \in Pages |-> stale[p] \/ p \in ps]
    /\ answers' = [p \in Pages |-> IF p \in ps THEN Outdated(answers[p]) ELSE answers[p]]

Deaf == {p \in Pages : phase[p] # "live"}

\* A change of what /api/state tells, and its frame.
Announce(f) == Publish(f) /\ Missed(Deaf) /\ UNCHANGED <<phase, asked, lost, early>>

----------------------------------------------------------------------------
(* The room.                                                               *)

\* The session asks: the prompt is opened, and everybody told.
Ask ==
    /\ Len(prompts) < MaxAsks /\ prompts' = Append(prompts, "open")
    /\ Announce(Frame("request", Len(prompts) + 1))
    /\ UNCHANGED <<role, sent, busy, turns, messages, shown, stream, clicks, upsets>>

\* The sweeper gives up on a prompt nobody answers, and everybody is told.
\* Mutant: nobody is.
Unannounced(id) == Missed(Deaf) /\ UNCHANGED <<frames, phase, asked, lost, early>>
Expired(id) == Announce(Frame("approval", id))

Expire(id) ==
    /\ prompts' = [prompts EXCEPT ![id] = "expired"] /\ Expired(id)
    /\ UNCHANGED <<role, sent, busy, turns, messages, shown, stream, clicks, upsets>>

TurnStarts ==
    /\ ~busy /\ turns < MaxTurns /\ busy' = TRUE /\ turns' = turns + 1
    /\ Announce(Frame("news", 0))
    /\ UNCHANGED <<role, prompts, sent, messages, shown, stream, clicks, upsets>>

TurnEnds ==
    /\ busy /\ busy' = FALSE /\ Announce(Frame("news", 0))
    /\ UNCHANGED <<role, prompts, sent, turns, messages, shown, stream, clicks, upsets>>

\* A cost, a decision, or a command of an administrator.
Tells ==
    /\ turns < MaxTurns /\ turns' = turns + 1 /\ Announce(Frame("news", 0))
    /\ UNCHANGED <<role, prompts, sent, busy, messages, shown, stream, clicks, upsets>>

\* A page that has its first answer, and no stream, does not hear a message.
Unheard(p) == \/ phase[p] = "connecting"
              \/ phase[p] = "loading" /\ answers[p] # <<>>

Say ==
    /\ messages < MaxMessages /\ messages' = messages + 1
    /\ Publish(Frame("message", messages + 1))
    /\ lost' = [p \in Pages |-> lost[p] \/ Unheard(p)]
    /\ UNCHANGED <<role, prompts, sent, busy, turns, phase, asked, answers, shown, stream,
                   clicks, stale, early, upsets>>

\* PermissionBroker.resolve: an open prompt is settled once.
\* Mutant: the prompt stays open.
StillOpen(id) == prompts
Resolved(id) == [prompts EXCEPT ![id] = "answered"]

\* Another page may have the card of any prompt there ever was.
Elsewhere == [by : Members \ Pages, id : DOMAIN prompts]

\* /verdict: authority is asked of the registry when the verdict is served.
ServeVerdict(c) ==
    /\ posts' = posts \ {c}
    /\ IF c.id \in Pending /\ MayApprove(c.by)
       THEN /\ prompts' = Resolved(c.id)
            /\ sent' = Append(sent, [id |-> c.id, by |-> role[c.by]])
            /\ Announce(Frame("approval", c.id))
       ELSE UNCHANGED <<prompts, sent, link, history>>
    /\ replies' = replies \cup
           {r \in {[by |-> c.by, id |-> c.id, barred |-> c.id \in Pending /\ ~MayApprove(c.by)]} :
              r.by \in Pages}
    /\ UNCHANGED <<role, busy, turns, messages, shown, stream, upsets>>

\* The last of n messages, as many as an answer has.
Newest(n) == LET size == IF n < MaxRecent THEN n ELSE MaxRecent
             IN  [i \in 1..size |-> n - size + i]

\* /api/state, all of it at one moment. Of prompts only an approver is told.
Snapshot(p) ==
    [can |-> MayApprove(p), cards |-> IF MayApprove(p) THEN Pending ELSE {}, busy |-> busy,
     messages |-> Newest(messages), behind |-> Len(frames[p]), old |-> FALSE]

ServeState(p) ==
    /\ asked[p] > 0 /\ asked' = [asked EXCEPT ![p] = @ - 1]
    /\ IF role[p] # "gone"
       THEN /\ answers' = [answers EXCEPT ![p] = Append(@, Snapshot(p))]
            /\ UNCHANGED phase
       ELSE /\ phase' = [phase EXCEPT ![p] = IF @ = "loading" THEN "gate" ELSE @]
            /\ UNCHANGED answers
    /\ UNCHANGED <<room, frames, shown, stream, clicks, history, upsets>>

----------------------------------------------------------------------------
(* The page.                                                               *)

\* start: the state first, then the stream.
Start(p) ==
    /\ phase[p] = "gate" /\ role[p] # "gone"
    /\ phase' = [phase EXCEPT ![p] = "loading"] /\ asked' = [asked EXCEPT ![p] = 1]
    /\ UNCHANGED <<room, frames, answers, shown, stream, clicks, history, upsets>>

\* Only the first answer fills the stream.
\* Mutant: every answer does.
FilledAgain(p, a) == stream[p] \o a.messages
Filled(p, a) == IF phase[p] = "loading" THEN a.messages ELSE stream[p]

\* An answer has the card of a prompt whose frame is still on its way.
Overtook(p, a) == \E i \in 1..a.behind : frames[p][i].kind = "request"

\* load: whatever answer arrives is shown.
Load(p, i) ==
    LET a == answers[p][i]
    IN  /\ shown' = [shown EXCEPT ![p] =
                       [can |-> a.can, busy |-> a.busy,
                        cards |-> [id \in Ids |-> IF id \in a.cards THEN 1 ELSE 0]]]
        /\ stream' = [stream EXCEPT ![p] = Filled(p, a)]
        /\ phase' = [phase EXCEPT ![p] = IF @ = "loading" THEN "connecting" ELSE @]
        /\ answers' = [answers EXCEPT ![p] =
                         Outdated(SubSeq(@, 1, i - 1)) \o SubSeq(@, i + 1, Len(@))]
        /\ stale' = [stale EXCEPT ![p] = a.old]
        /\ early' = [early EXCEPT ![p] = Overtook(p, a)]
        /\ UNCHANGED <<room, frames, asked, clicks, lost, upsets>>

\* connect, and what an EventSource does by itself when its stream breaks. A member who
\* was removed has no stream any more.
Connect(p) ==
    /\ phase[p] = "connecting" /\ role[p] # "gone"
    /\ phase' = [phase EXCEPT ![p] = "live"]
    /\ UNCHANGED <<room, frames, asked, answers, shown, stream, clicks, history, upsets>>

\* What a frame does to an answer that is still on its way: it may be newer.
Passed(f, a) == IF a.behind > 0 THEN [a EXCEPT !.behind = @ - 1]
                ELSE [a EXCEPT !.old = @ \/ f.kind # "message"]

\* A prompt's frame adds a card, whatever cards there are; its end removes all of them.
Hears(p) ==
    LET f == Head(frames[p])
    IN  /\ frames[p] # <<>> /\ frames' = [frames EXCEPT ![p] = Tail(@)]
        /\ answers' = [answers EXCEPT ![p] = [i \in DOMAIN @ |-> Passed(f, @[i])]]
        /\ CASE f.kind = "message" ->
                  /\ stream' = [stream EXCEPT ![p] = Append(@, f.id)]
                  /\ UNCHANGED <<shown, asked>>
             [] f.kind = "request" ->
                  /\ shown' = [shown EXCEPT ![p].cards[f.id] = @ + 1]
                  /\ UNCHANGED <<stream, asked>>
             [] f.kind = "approval" ->
                  /\ shown' = [shown EXCEPT ![p].cards[f.id] = 0]
                  /\ UNCHANGED <<stream, asked>>
             [] f.kind = "news" ->
                  /\ asked[p] + Len(answers[p]) < MaxLoads
                  /\ asked' = [asked EXCEPT ![p] = @ + 1]
                  /\ UNCHANGED <<stream, shown>>
        /\ UNCHANGED <<room, phase, clicks, history, upsets>>

\* A card is only there for a member the page believes to be an approver.
Click(p, id) ==
    /\ shown[p].can /\ shown[p].cards[id] > 0
    /\ posts' = posts \cup {[by |-> p, id |-> id]}
    /\ UNCHANGED <<room, link, shown, stream, replies, history, upsets>>

\* Whatever the answer to a verdict is, its card goes: of a member who was refused, too.
Answered(r) ==
    /\ replies' = replies \ {r}
    /\ shown' = [shown EXCEPT ![r.by].cards[r.id] = 0]
    /\ stale' = [stale EXCEPT ![r.by] = @ \/ r.barred]
    /\ UNCHANGED <<room, link, stream, posts, lost, early, upsets>>

----------------------------------------------------------------------------
(* What goes wrong.                                                        *)

\* Something but a message is among the frames of p after the first n.
Unread(p, n) == \E i \in (n + 1)..Len(frames[p]) : frames[p][i].kind # "message"

\* An answer that was served after a frame was published has what the frame tells.
Passing(p) == [i \in DOMAIN answers[p] |->
    [answers[p][i] EXCEPT !.behind = 0, !.old = @ \/ Unread(p, answers[p][i].behind)]]

UnreadMessage(p) == \E i \in DOMAIN frames[p] : frames[p][i].kind = "message"

Cut(p) ==
    /\ phase[p] = "live" /\ Upset("cut")
    /\ phase' = [phase EXCEPT ![p] = "connecting"] /\ frames' = [frames EXCEPT ![p] = <<>>]
    /\ lost' = [lost EXCEPT ![p] = @ \/ UnreadMessage(p)]
    /\ stale' = [stale EXCEPT ![p] = @ \/ Unread(p, 0)]
    /\ answers' = [answers EXCEPT ![p] = Passing(p)]
    /\ UNCHANGED <<room, asked, shown, stream, clicks, early>>

\* The page is told of its member's role by the next answer only.
Role(m) ==
    /\ role[m] # "gone" /\ Upset("role")
    /\ role' = [role EXCEPT ![m] = IF MayApprove(m) THEN "member" ELSE "approver"]
    /\ Missed({m})
    /\ UNCHANGED <<prompts, sent, busy, turns, messages, phase, frames, asked, shown, stream,
                   clicks, lost, early>>

Leave(m) ==
    /\ role[m] # "gone" /\ Upset("remove")
    /\ role' = [role EXCEPT ![m] = "gone"]
    /\ phase' = [p \in Pages |-> IF p = m /\ phase[p] = "live" THEN "connecting" ELSE phase[p]]
    /\ UNCHANGED <<prompts, sent, busy, turns, messages, frames, asked, answers, shown, stream,
                   clicks, history>>

\* The room's prompts were in its memory, and the session that asked ends with it.
Restart ==
    /\ Upset("restart")
    /\ prompts' = [id \in DOMAIN prompts |-> IF id \in Pending THEN "forgotten" ELSE prompts[id]]
    /\ busy' = FALSE /\ posts' = {} /\ replies' = {}
    /\ phase' = [p \in Pages |-> IF phase[p] = "loading" THEN "gate"
                                 ELSE IF phase[p] = "live" THEN "connecting" ELSE phase[p]]
    /\ frames' = [p \in Pages |-> <<>>] /\ asked' = [p \in Pages |-> 0]
    /\ answers' = [p \in Pages |-> <<>>]
    /\ stale' = [p \in Pages |-> TRUE]
    /\ lost' = [p \in Pages |-> lost[p] \/ UnreadMessage(p)]
    /\ UNCHANGED <<role, sent, turns, messages, shown, stream, early>>

----------------------------------------------------------------------------

Next ==
    \/ Ask \/ TurnStarts \/ TurnEnds \/ Tells \/ Say \/ Restart
    \/ \E id \in Pending : Expire(id)
    \/ \E m \in Members : \/ Role(m) \/ Leave(m)
    \/ \E c \in posts \cup Elsewhere : ServeVerdict(c)
    \/ \E r \in replies : Answered(r)
    \/ \E p \in Pages : \/ Start(p) \/ ServeState(p) \/ Connect(p) \/ Hears(p)
                        \/ Cut(p)
                        \/ \E i \in DOMAIN answers[p] : Load(p, i)
                        \/ \E id \in Ids : Click(p, id)

Spec == Init /\ [][Next]_vars

----------------------------------------------------------------------------
(* Properties.                                                             *)

\* Every variable keeps its type.
Roles   == {"approver", "member", "gone"}
Fates   == {"open", "answered", "expired", "forgotten"}
Verdict == [id : Nat, by : Roles]
Told    == [kind : {"request", "approval", "news", "message"}, id : Nat]
View    == [can : BOOLEAN, cards : [Ids -> Nat], busy : BOOLEAN]
Answer  == [can : BOOLEAN, cards : SUBSET Nat, busy : BOOLEAN, messages : Seq(Nat),
            behind : Nat, old : BOOLEAN]

TypeOK ==
    /\ role \in [Members -> Roles] /\ prompts \in Seq(Fates) /\ DOMAIN prompts \subseteq Ids
    /\ sent \in Seq(Verdict)
    /\ busy \in BOOLEAN /\ turns \in Nat /\ messages \in Nat
    /\ phase \in [Pages -> {"gate", "loading", "connecting", "live"}]
    /\ frames \in [Pages -> Seq(Told)]
    /\ asked \in [Pages -> Nat] /\ answers \in [Pages -> Seq(Answer)]
    /\ shown \in [Pages -> View] /\ stream \in [Pages -> Seq(Nat)]
    /\ posts \subseteq [by : Members, id : Nat]
    /\ replies \subseteq [by : Pages, id : Nat, barred : BOOLEAN]
    /\ stale \in [Pages -> BOOLEAN] /\ lost \in [Pages -> BOOLEAN]
    /\ early \in [Pages -> BOOLEAN] /\ upsets \in Nat

\* The session hears of each prompt once at most, from somebody who was an approver when
\* the room took the verdict, and never of a prompt that expired: with any number of
\* approvers who click at once, while roles change and the sweeper runs.
VerdictsAreDue ==
    \A i \in DOMAIN sent :
        /\ prompts[sent[i].id] = "answered" /\ sent[i].by = "approver"
        /\ \A j \in DOMAIN sent : sent[j].id = sent[i].id => j = i

\* Nothing is on its way to or from the page.
Quiet(p) == /\ phase[p] = "live" /\ frames[p] = <<>> /\ asked[p] = 0 /\ answers[p] = <<>>
            /\ \A r \in replies : r.by # p

\* A page at rest shows an approver the prompts that are open and everybody whether the
\* agent works, unless it was left with an answer older than what it had been told since,
\* a frame was missed, or its member's role has changed. No prompt has two cards, unless
\* an answer that has it came before the frame of the prompt, which adds another.
PageAgrees ==
    \A p \in Pages : Quiet(p) =>
        /\ ~stale[p] => /\ shown[p].can = MayApprove(p) /\ shown[p].busy = busy
                        /\ MayApprove(p) =>
                               \A id \in Ids : (shown[p].cards[id] > 0 <=> id \in Pending)
        /\ ~early[p] => \A id \in Ids : shown[p].cards[id] <= 1

\* The messages of a page are the room's, in its order and none twice. Unless some were
\* published while the page had no stream, they are the newest without a gap: as many as
\* an answer has at least, or all there are.
StreamFaithful ==
    \A p \in Pages :
        LET size == Len(stream[p])
        IN  /\ \A i, j \in DOMAIN stream[p] : i < j => stream[p][i] < stream[p][j]
            /\ Quiet(p) /\ ~lost[p] =>
                   /\ \A i \in DOMAIN stream[p] : stream[p][i] = messages - size + i
                   /\ size \in MaxRecent..messages \cup {messages}
=============================================================================
