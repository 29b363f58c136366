----------------------------- MODULE FleetProofs -----------------------------
(***************************************************************************)
(* Proofs about Fleet, for any number of members, calls and upsets: an address *)
(* is one seat's, every worker process is one the fleet can stop, and the       *)
(* sidebar shows the fleet when every call is answered and every frame applied. *)
(***************************************************************************)
EXTENDS Fleet, SequenceTheorems, WellFoundedInduction, TLAPS

Member  == [name : Nat, kind : {"person", "agent"}, role : {"owner", "member"},
            handle : Nat, worker : BOOLEAN, token : Nat]
Process == [handle : Handles, member : Nat, state : {"booting", "joined", "dying", "gone"}]
Worker  == [handle : Handles, member : Nat, proc : Nat, state : {"starting", "exited"}]

Typed == /\ who \in Seq(Member) /\ members \subseteq DOMAIN who
         /\ procs \in Seq(Process) /\ fleet \subseteq Worker
         /\ sup \in [Handles -> Nat] /\ up \in BOOLEAN

\* A worker of the fleet has its process, under its handle's name, and its member;
\* no two share a handle.
Launched == \A w \in fleet :
    /\ w.proc \in DOMAIN procs
    /\ procs[w.proc].handle = w.handle /\ procs[w.proc].member = w.member
    /\ sup[w.handle] = w.proc
    /\ w.state = "exited" => procs[w.proc].state = "gone"
    /\ \A v \in fleet : v.handle = w.handle => v = w

\* A process was started for a member of its own, which is a worker.
Minted == \A p \in DOMAIN procs :
    /\ procs[p].member \in DOMAIN who /\ who[procs[p].member].worker
    /\ \A q \in DOMAIN procs : procs[q].member = procs[p].member => q = p

\* A process that is alive is one that the fleet has, and can stop, or one that outlived
\* its room, whose seat the next one has taken off the roster.
InReach(p) == /\ sup[procs[p].handle] = p
              /\ \E w \in fleet : w.proc = p /\ w.state # "exited"
              /\ procs[p].member \in members \/ "admin" \in happened
Astray(p)  == /\ sup[procs[p].handle] # p /\ "crash" \in happened
              /\ up => procs[p].member \notin members \/ "admin" \in happened
Held == \A p \in DOMAIN procs : Alive(p) => InReach(p) \/ Astray(p)

\* Nobody but an administrator makes a worker an owner.
Crowned == \A i \in DOMAIN who : who[i].worker /\ who[i].role = "owner" => "admin" \in happened

\* A worker's seat is on the roster for a worker of the fleet, or for one that boot could
\* not remove; a room that is down has no fleet.
Seated == /\ up => \A m \in members : who[m].worker =>
                       \/ \E w \in fleet : w.member = m
                       \/ "admin" \in happened /\ ~Calm({"rebind", "crash"})
          /\ ~up => fleet = {} /\ ~Calm({"rebind", "crash"})

IInv == Typed /\ OneSeatPerAddress /\ Launched /\ Minted /\ Held /\ Seated /\ Crowned

kept == <<who, members, fleet, procs, sup, up>>

----------------------------------------------------------------------------

\* What leaves the roster, the fleet and its processes alone, and forgets nothing,
\* keeps the invariant.
LEMMA Carries ==
    ASSUME IInv, UNCHANGED kept, happened \subseteq happened'
    PROVE  IInv'
<1>1. Typed' /\ Minted'
  BY DEF IInv, kept, Typed, Minted
<1>2. OneSeatPerAddress'
  BY DEF IInv, kept, OneSeatPerAddress, Agents
<1>3. Launched'
  BY DEF IInv, kept, Launched
<1>4. Held'
  BY DEF IInv, kept, Held, InReach, Astray, Alive
<1>5. Seated' /\ Crowned'
  BY DEF IInv, kept, Seated, Crowned, Calm
<1> QED BY <1>1, <1>2, <1>3, <1>4, <1>5 DEF IInv

\* Who is added has the next number, and is nobody there was.
LEMMA Added ==
    ASSUME Typed, NEW m \in Member, AddMember(m)
    PROVE  /\ who' \in Seq(Member) /\ Len(who') = Len(who) + 1 /\ Len(who) \in Nat
           /\ DOMAIN who = 1..Len(who) /\ DOMAIN who' = 1..Len(who')
           /\ \A i \in DOMAIN who : i \in DOMAIN who' /\ who'[i] = who[i]
           /\ who'[Len(who) + 1] = m /\ Len(who) + 1 \in DOMAIN who'
           /\ Len(who) + 1 \notin DOMAIN who
           /\ members' = members \cup {Len(who) + 1} /\ members' \subseteq DOMAIN who'
<1>1. who' = Append(who, m) /\ who \in Seq(Member) /\ members' = members \cup {Len(who) + 1}
  BY DEF AddMember, Typed
<1>2. /\ who' \in Seq(Member) /\ Len(who') = Len(who) + 1
      /\ \A i \in 1..Len(who) : who'[i] = who[i]
      /\ who'[Len(who) + 1] = m
  BY <1>1, AppendProperties
<1>3. Len(who) \in Nat /\ DOMAIN who = 1..Len(who) /\ DOMAIN who' = 1..Len(who')
  BY <1>1, <1>2, LenProperties
<1>4. \A i \in DOMAIN who : i \in DOMAIN who'
  BY <1>2, <1>3
<1>5. Len(who) + 1 \in DOMAIN who' /\ Len(who) + 1 \notin DOMAIN who
  BY <1>2, <1>3
<1>6. members' \subseteq DOMAIN who'
  BY <1>1, <1>4, <1>5 DEF Typed
<1> QED BY <1>1, <1>2, <1>3, <1>4, <1>5, <1>6

\* A roster stays one seat to an address when who comes has a free name and, an agent, a
\* free handle.
LEMMA AddressesKept ==
    ASSUME Typed, OneSeatPerAddress, NEW m \in Member, AddMember(m),
           m.name \notin TakenNames, m.kind = "agent" => m.handle \notin TakenAgents
    PROVE  OneSeatPerAddress'
<1>1. \A i \in members' : \/ i \in members /\ who'[i] = who[i]
                          \/ i = Len(who) + 1 /\ who'[i] = m
  <2>1. members' = members \cup {Len(who) + 1} /\ who'[Len(who) + 1] = m
    BY Added
  <2>2. \A i \in members : who'[i] = who[i]
    BY Added DEF Typed
  <2> QED BY <2>1, <2>2
<1>2. \A i, j \in members' : who'[i].name = who'[j].name => i = j
  BY <1>1 DEF OneSeatPerAddress, TakenNames
<1>3. \A i \in Agents' : i \in members' /\ who'[i].kind = "agent"
  BY DEF Agents
<1>4. \A i, j \in Agents' : who'[i].handle = who'[j].handle => i = j
  <2>1. TAKE i, j \in Agents'
  <2>2. CASE i \in members /\ who'[i] = who[i] /\ j \in members /\ who'[j] = who[j]
    BY <1>3, <2>2 DEF OneSeatPerAddress, Agents
  <2>3. CASE i \in members /\ who'[i] = who[i] /\ j = Len(who) + 1 /\ who'[j] = m
    BY <1>3, <2>3 DEF TakenAgents, Agents
  <2>4. CASE i = Len(who) + 1 /\ who'[i] = m /\ j \in members /\ who'[j] = who[j]
    BY <1>3, <2>4 DEF TakenAgents, Agents
  <2>5. CASE i = Len(who) + 1 /\ j = Len(who) + 1
    BY <2>5
  <2> QED BY <1>1, <1>3, <2>2, <2>3, <2>4, <2>5
<1> QED BY <1>2, <1>4 DEF OneSeatPerAddress

\* Fewer members, each as they were.
LEMMA FewerKeep ==
    ASSUME OneSeatPerAddress, members' \subseteq members, UNCHANGED who
    PROVE  OneSeatPerAddress'
BY DEF OneSeatPerAddress, Agents

----------------------------------------------------------------------------
(* The roster.                                                             *)

\* A member who is no worker comes.
LEMMA JoinsKeep ==
    ASSUME IInv, NEW m \in Member, AddMember(m), ~m.worker, m.name \notin TakenNames,
           m.kind = "agent" => m.handle \notin TakenAgents,
           UNCHANGED <<procs, fleet, sup, up>>, happened \subseteq happened'
    PROVE  IInv'
<1>1. Typed /\ OneSeatPerAddress /\ Launched /\ Minted /\ Held /\ Seated /\ Crowned
  BY DEF IInv
<1>2. /\ who' \in Seq(Member) /\ \A i \in DOMAIN who : i \in DOMAIN who' /\ who'[i] = who[i]
      /\ members' = members \cup {Len(who) + 1} /\ members' \subseteq DOMAIN who'
      /\ who'[Len(who) + 1] = m /\ Len(who) + 1 \notin DOMAIN who
      /\ \A i \in DOMAIN who' : i \in DOMAIN who \/ i = Len(who) + 1
  BY <1>1, Added
<1>3. Typed'
  BY <1>1, <1>2 DEF Typed
<1>4. OneSeatPerAddress'
  BY <1>1, AddressesKept
<1>5. Launched' /\ Minted'
  BY <1>1, <1>2 DEF Launched, Minted
<1>6. Held'
  BY <1>1, <1>2 DEF Held, InReach, Astray, Minted, Alive
<1>7. Seated' /\ Crowned'
  BY <1>1, <1>2 DEF Seated, Typed, Crowned, Calm
<1> QED BY <1>3, <1>4, <1>5, <1>6, <1>7 DEF IInv

\* Somebody goes; the room notes when it is a worker whose process was left alone.
LEMMA GoesKeep ==
    ASSUME IInv, NEW m \in members, members' = members \ {m},
           who[m].worker => "admin" \in happened', happened \subseteq happened',
           UNCHANGED <<who, procs, fleet, sup, up>>
    PROVE  IInv'
<1>1. Typed /\ OneSeatPerAddress /\ Launched /\ Minted /\ Held /\ Seated /\ Crowned
  BY DEF IInv
<1>2. Typed' /\ Launched' /\ Minted'
  BY <1>1 DEF Typed, Launched, Minted
<1>3. OneSeatPerAddress'
  BY <1>1, FewerKeep
<1>4. Held'
  <2>1. SUFFICES ASSUME NEW p \in DOMAIN procs, Alive(p)
                 PROVE  InReach(p)' \/ Astray(p)'
    BY DEF Held, Alive
  <2>2. InReach(p) \/ Astray(p)
    BY <1>1, <2>1 DEF Held
  <2>3. procs[p].member = m => who[m].worker
    BY <1>1 DEF Minted
  <2> QED BY <2>2, <2>3 DEF InReach, Astray
<1>5. Seated' /\ Crowned'
  BY <1>1 DEF Seated, Crowned, Calm
<1> QED BY <1>2, <1>3, <1>4, <1>5 DEF IInv

\* A member is given another role, another name or another token.
LEMMA ChangesKeep ==
    ASSUME IInv, NEW m \in members, NEW x \in Member, who' = [who EXCEPT ![m] = x],
           x.kind = who[m].kind, x.handle = who[m].handle, x.worker = who[m].worker,
           x.name = who[m].name \/ x.name \notin TakenNames,
           x.role = who[m].role \/ (x.worker => "admin" \in happened'),
           UNCHANGED <<members, procs, fleet, sup, up>>, happened \subseteq happened'
    PROVE  IInv'
<1>1. Typed /\ OneSeatPerAddress /\ Launched /\ Minted /\ Held /\ Seated /\ Crowned
  BY DEF IInv
<1>2. /\ who' \in Seq(Member) /\ DOMAIN who' = DOMAIN who
      /\ who'[m] = x /\ \A i \in DOMAIN who \ {m} : who'[i] = who[i]
  BY <1>1 DEF Typed
<1>3. \A i \in DOMAIN who : /\ who'[i].kind = who[i].kind /\ who'[i].handle = who[i].handle
                            /\ who'[i].worker = who[i].worker
  BY <1>2
<1>4. Typed'
  BY <1>1, <1>2 DEF Typed
<1>5. OneSeatPerAddress'
  <2>1. members \subseteq DOMAIN who
    BY <1>1 DEF Typed
  <2>2. \A i, j \in members : who'[i].name = who'[j].name => i = j
    BY <1>1, <1>2, <2>1 DEF OneSeatPerAddress, TakenNames
  <2>3. Agents' = Agents
    BY <1>3, <2>1 DEF Agents
  <2>4. \A i, j \in Agents : who'[i].handle = who'[j].handle => i = j
    BY <1>1, <1>3, <2>1 DEF OneSeatPerAddress, Agents
  <2> QED BY <2>2, <2>3, <2>4 DEF OneSeatPerAddress
<1>6. Launched'
  BY <1>1 DEF Launched
<1>7. Minted'
  BY <1>1, <1>2, <1>3 DEF Minted
<1>8. Held'
  BY <1>1 DEF Held, InReach, Astray, Alive
<1>9. Seated' /\ Crowned'
  BY <1>1, <1>2, <1>3 DEF Seated, Typed, Crowned, Calm
<1> QED BY <1>4, <1>5, <1>6, <1>7, <1>8, <1>9 DEF IInv

\* What an administrator does.
LEMMA AdminKeeps ==
    ASSUME IInv, Administer
    PROVE  IInv'
<1>1. Typed
  BY DEF IInv
<1>2. \A ms : Admin(ms) => /\ happened \subseteq happened'
                           /\ (\E m \in ms : who[m].worker) => "admin" \in happened'
  BY DEF Admin, Upset, Note
<1>3. {1, Ana} \subseteq Nat /\ Owner \in Member
  BY FleetAssumption DEF Ana, Owner, Member
<1>4. ASSUME NEW n \in {1, Ana}, NEW r \in {"owner", "member"}, Invite(n, r)
      PROVE  IInv'
  <2>1. DEFINE m == [Owner EXCEPT !.name = n, !.role = r]
  <2>2. m \in Member /\ ~m.worker /\ m.name = n /\ m.kind = "person"
    BY <1>3 DEF Owner, Member
  <2>3. /\ AddMember(m) /\ n \notin TakenNames
        /\ UNCHANGED <<procs, fleet, sup, up>> /\ happened \subseteq happened'
    BY <1>2, <1>4 DEF Invite
  <2> HIDE DEF m
  <2> QED BY <2>2, <2>3, JoinsKeep
<1>5. ASSUME NEW n \in {1, Ana}, NEW h \in {1, Ana}, InviteAgent(n, h)
      PROVE  IInv'
  <2>1. DEFINE m == [Owner EXCEPT !.name = n, !.kind = "agent", !.role = "member", !.handle = h]
  <2>2. m \in Member /\ ~m.worker /\ m.name = n /\ m.handle = h
    BY <1>3 DEF Owner, Member
  <2>3. /\ AddMember(m) /\ n \notin TakenNames /\ h \notin TakenAgents
        /\ UNCHANGED <<procs, fleet, sup, up>> /\ happened \subseteq happened'
    BY <1>2, <1>5 DEF InviteAgent
  <2> HIDE DEF m
  <2> QED BY <2>2, <2>3, JoinsKeep
<1>6. ASSUME NEW m \in members, RemoveMember(m) \/ Ban(m)
      PROVE  IInv'
  <2>1. /\ members' = members \ {m} /\ UNCHANGED <<who, procs, fleet, sup, up>>
        /\ Admin({m})
    BY <1>6 DEF RemoveMember, Ban
  <2> QED BY <1>2, <2>1, GoesKeep
<1>7. ASSUME NEW m \in members, NEW r \in {"owner", "member"}, Role(m, r)
      PROVE  IInv'
  <2>1. who[m] \in Member /\ m \in DOMAIN who
    BY <1>1 DEF Typed
  <2>2. DEFINE x == [who[m] EXCEPT !.role = r]
  <2>3. /\ x \in Member /\ x.kind = who[m].kind /\ x.handle = who[m].handle
        /\ x.worker = who[m].worker /\ x.name = who[m].name
    BY <2>1 DEF Member
  <2>4. /\ who' = [who EXCEPT ![m] = x] /\ UNCHANGED <<members, procs, fleet, sup, up>>
        /\ happened \subseteq happened' /\ (who[m].worker => "admin" \in happened')
    BY <1>2, <1>7, <2>1 DEF Role
  <2> HIDE DEF x
  <2> QED BY <2>3, <2>4, ChangesKeep
<1>8. ASSUME NEW m \in members, NEW n \in {1, Ana}, Rename(m, n)
      PROVE  IInv'
  <2>1. who[m] \in Member /\ m \in DOMAIN who
    BY <1>1 DEF Typed
  <2>2. DEFINE x == [who[m] EXCEPT !.name = n]
  <2>3. /\ x \in Member /\ x.kind = who[m].kind /\ x.handle = who[m].handle
        /\ x.worker = who[m].worker /\ x.name = n /\ x.role = who[m].role
    BY <1>3, <2>1 DEF Member
  <2>4. /\ who' = [who EXCEPT ![m] = x] /\ UNCHANGED <<members, procs, fleet, sup, up>>
        /\ happened \subseteq happened' /\ n \notin TakenNames
    BY <1>2, <1>8, <2>1 DEF Rename
  <2> HIDE DEF x
  <2> QED BY <2>3, <2>4, ChangesKeep
<1>9. ASSUME NEW m \in members, Rotate(m)
      PROVE  IInv'
  <2>1. who[m] \in Member /\ m \in DOMAIN who
    BY <1>1 DEF Typed
  <2>2. DEFINE x == [who[m] EXCEPT !.token = @ + 1]
  <2>3. /\ x \in Member /\ x.kind = who[m].kind /\ x.handle = who[m].handle
        /\ x.worker = who[m].worker /\ x.name = who[m].name /\ x.role = who[m].role
    BY <2>1 DEF Member
  <2>4. /\ who' = [who EXCEPT ![m] = x] /\ UNCHANGED <<members, procs, fleet, sup, up>>
        /\ happened \subseteq happened'
    BY <1>2, <1>9, <2>1 DEF Rotate
  <2> HIDE DEF x
  <2> QED BY <2>3, <2>4, ChangesKeep
<1>10. ASSUME NEW n \in bans, Unban(n)
       PROVE  IInv'
  <2>1. UNCHANGED kept /\ happened \subseteq happened'
    BY <1>2, <1>10 DEF Unban, kept
  <2> QED BY <2>1, Carries
<1> QED BY <1>4, <1>5, <1>6, <1>7, <1>8, <1>9, <1>10 DEF Administer

----------------------------------------------------------------------------
(* The fleet.                                                              *)

\* The handle of a new worker is free.
LEMMA FreeHandle ==
    ASSUME Handles \ TakenHandles # {}
    PROVE  NextHandle \in Handles \ TakenHandles
<1>1. Handles \ TakenHandles \subseteq Nat
  BY FleetAssumption DEF Handles
<1>2. \E h \in Handles \ TakenHandles : \A g \in Handles \ TakenHandles : h <= g
  <2>1. PICK R : R = OpToRel(<, Nat) OBVIOUS
  <2>2. IsWellFoundedOn(R, Nat) BY <2>1, NatLessThanWellFounded
  <2>3. \A x, y \in Nat : x < y => <<x, y>> \in R BY <2>1 DEF OpToRel
  <2>4. PICK h \in Handles \ TakenHandles :
            \A g \in Handles \ TakenHandles : ~ (<<g, h>> \in R)
    BY <1>1, <2>2, WFMin
  <2>5. ASSUME NEW g \in Handles \ TakenHandles
        PROVE  h <= g
    <3>1. h \in Nat /\ g \in Nat
      BY <1>1
    <3>2. ~ (g < h)
      BY <2>3, <2>4, <3>1
    <3> QED BY <3>1, <3>2
  <2> QED BY <2>5
<1> QED BY <1>2 DEF NextHandle

LEMMA SpawnKeeps ==
    ASSUME IInv, up, SpawnWorker, happened \subseteq happened'
    PROVE  IInv'
<1>. DEFINE h == NextHandle
            m == Len(who) + 1
            q == Len(procs) + 1
            seat == [name |-> h, kind |-> "agent", role |-> "member", handle |-> h,
                     worker |-> TRUE, token |-> 1]
            run  == [handle |-> h, member |-> m, state |-> "booting"]
            new  == [handle |-> h, member |-> m, proc |-> q, state |-> "starting"]
<1>1. Typed /\ OneSeatPerAddress /\ Launched /\ Minted /\ Held /\ Seated /\ Crowned
  BY DEF IInv
<1>2. /\ AddMember(seat) /\ procs' = Append(procs, run) /\ sup' = [sup EXCEPT ![h] = q]
      /\ fleet' = fleet \cup {new} /\ up' = up
  BY DEF SpawnWorker
<1>3. h \in Handles \ TakenHandles
  BY FreeHandle DEF SpawnWorker
<1>4. h \in Nat /\ h \in Handles /\ h \notin TakenNames /\ h \notin TakenAgents
      /\ \A w \in fleet : w.handle # h
  BY <1>3, FleetAssumption DEF Handles, TakenHandles
<1>. HIDE DEF h
<1>5. seat \in Member
  BY <1>4 DEF Member
<1>6. /\ who' \in Seq(Member) /\ m \in DOMAIN who' /\ m \in Nat /\ m \notin DOMAIN who
      /\ \A i \in DOMAIN who : i \in DOMAIN who' /\ who'[i] = who[i]
      /\ who'[m] = seat /\ members' = members \cup {m} /\ members' \subseteq DOMAIN who'
      /\ \A i \in DOMAIN who' : i \in DOMAIN who \/ i = m
  BY <1>1, <1>2, <1>5, Added
<1>7. OneSeatPerAddress'
  BY <1>1, <1>2, <1>4, <1>5, AddressesKept
<1>8. run \in Process
  BY <1>4, <1>6 DEF Process
<1>9. /\ procs' \in Seq(Process) /\ DOMAIN procs' = DOMAIN procs \cup {q} /\ q \in Nat
      /\ q # 0 /\ q \notin DOMAIN procs /\ procs'[q] = run
      /\ \A p \in DOMAIN procs : procs'[p] = procs[p]
  <2>1. procs \in Seq(Process)
    BY <1>1 DEF Typed
  <2>2. /\ procs' \in Seq(Process) /\ Len(procs') = q /\ procs'[q] = run
        /\ \A p \in 1..Len(procs) : procs'[p] = procs[p]
    BY <1>2, <1>8, <2>1, AppendProperties
  <2>3. Len(procs) \in Nat /\ DOMAIN procs = 1..Len(procs) /\ DOMAIN procs' = 1..Len(procs')
    BY <2>1, <2>2, LenProperties
  <2> QED BY <2>2, <2>3
<1>. HIDE DEF m, q
<1>10. sup' \in [Handles -> Nat] /\ sup'[h] = q /\ \A g \in Handles \ {h} : sup'[g] = sup[g]
  BY <1>1, <1>2, <1>4, <1>9 DEF Typed
<1>11. new \in Worker
  BY <1>4, <1>6, <1>9 DEF Worker
<1>12. Typed'
  BY <1>1, <1>2, <1>6, <1>9, <1>10, <1>11 DEF Typed
<1>13. \A w \in fleet : /\ w.handle \in Handles \ {h} /\ w.proc \in DOMAIN procs
                        /\ sup'[w.handle] = sup[w.handle] /\ procs'[w.proc] = procs[w.proc]
                        /\ w \in fleet'
  BY <1>1, <1>2, <1>4, <1>9, <1>10 DEF Typed, Worker, Launched
<1>14. Launched'
  <2>1. SUFFICES ASSUME NEW w \in fleet'
                 PROVE  /\ w.proc \in DOMAIN procs'
                        /\ procs'[w.proc].handle = w.handle /\ procs'[w.proc].member = w.member
                        /\ sup'[w.handle] = w.proc
                        /\ w.state = "exited" => procs'[w.proc].state = "gone"
                        /\ \A v \in fleet' : v.handle = w.handle => v = w
    BY DEF Launched
  <2>2. CASE w \in fleet
    BY <1>1, <1>2, <1>4, <1>9, <1>13, <2>2 DEF Launched
  <2>3. CASE w = new
    BY <1>2, <1>4, <1>9, <1>10, <2>3
  <2> QED BY <1>2, <2>2, <2>3
<1>15. Minted'
  BY <1>1, <1>6, <1>9 DEF Minted
<1>16. Held'
  <2>1. SUFFICES ASSUME NEW p \in DOMAIN procs', Alive(p)'
                 PROVE  InReach(p)' \/ Astray(p)'
    BY DEF Held
  <2>2. CASE p \in DOMAIN procs
    <3>1. procs'[p] = procs[p] /\ Alive(p)
      BY <1>9, <2>1, <2>2 DEF Alive
    <3>2. CASE InReach(p)
      <4>1. PICK w \in fleet : w.proc = p /\ w.state # "exited"
        BY <3>2 DEF InReach
      <4>2. sup'[procs'[p].handle] = p
        BY <1>1, <1>13, <3>1, <4>1 DEF Launched
      <4> QED BY <1>6, <1>13, <3>1, <3>2, <4>1, <4>2 DEF InReach
    <3>3. CASE Astray(p)
      <4>1. procs[p].handle \in Handles /\ p # q
        <5>1. procs[p] \in Process
          BY <1>1, <2>2, ElementOfSeq, LenProperties DEF Typed
        <5> QED BY <1>9, <2>2, <5>1 DEF Process
      <4>2. sup'[procs'[p].handle] # p
        BY <1>10, <3>1, <3>3, <4>1 DEF Astray
      <4>3. procs[p].member \notin members => procs'[p].member \notin members'
        BY <1>1, <1>6, <2>2, <3>1 DEF Minted
      <4> QED BY <1>2, <3>1, <3>3, <4>2, <4>3 DEF Astray
    <3> QED BY <1>1, <2>2, <3>1, <3>2, <3>3 DEF Held
  <2>3. CASE p = q
    <3>1. new \in fleet' /\ new.proc = q /\ new.state # "exited"
      BY <1>2
    <3>2. procs'[p].handle = h /\ procs'[p].member = m
      BY <1>9, <2>3
    <3>3. m \in members' /\ sup'[h] = q
      BY <1>6, <1>10
    <3> QED BY <2>3, <3>1, <3>2, <3>3 DEF InReach
  <2> QED BY <1>9, <2>2, <2>3
<1>17. Seated'
  <2>1. \A i \in members : who'[i] = who[i]
    BY <1>1, <1>6 DEF Typed
  <2>2. \A i \in members' : who'[i].worker =>
                                \/ \E w \in fleet' : w.member = i
                                \/ "admin" \in happened' /\ ~Calm({"rebind", "crash"})'
    <3>1. new \in fleet' /\ new.member = m /\ fleet \subseteq fleet'
      BY <1>2
    <3>2. \A i \in members : who[i].worker =>
                                \/ \E w \in fleet : w.member = i
                                \/ "admin" \in happened /\ ~Calm({"rebind", "crash"})
      BY <1>1 DEF Seated
    <3>3. \A i \in members' : i \in members \/ i = m
      BY <1>6
    <3> QED BY <2>1, <3>1, <3>2, <3>3 DEF Calm
  <2> QED BY <1>2, <2>2 DEF Seated
<1>18. Crowned'
  BY <1>1, <1>6 DEF Crowned
<1> QED BY <1>7, <1>12, <1>14, <1>15, <1>16, <1>17, <1>18 DEF IInv

\* Another table of the same processes: each has its seat and its handle.
Renewed == /\ DOMAIN procs' = DOMAIN procs
           /\ \A p \in DOMAIN procs : /\ procs'[p] \in Process
                                      /\ procs'[p].handle = procs[p].handle
                                      /\ procs'[p].member = procs[p].member
                                      /\ procs[p].state = "gone" => procs'[p].state = "gone"

LEMMA RenewedIsTyped ==
    ASSUME Typed, Renewed, procs' = [p \in DOMAIN procs |-> procs'[p]]
    PROVE  procs' \in Seq(Process)
<1>1. Len(procs) \in Nat /\ DOMAIN procs = 1..Len(procs)
  BY LenProperties DEF Typed
<1>2. procs' \in [1..Len(procs) -> Process]
  BY <1>1 DEF Renewed
<1> QED BY <1>1, <1>2, SeqDef

\* Workers of the fleet are stopped, and their seats go.
LEMMA StopKeeps ==
    ASSUME IInv, NEW ws \in SUBSET fleet, Stop(ws), UNCHANGED who,
           up' = up \/ (up' = FALSE /\ ws = fleet /\ ~Calm({"rebind", "crash"})'),
           happened \subseteq happened'
    PROVE  IInv'
<1>. DEFINE hs == {w.handle : w \in ws}
            ms == {w.member : w \in ws}
<1>1. Typed /\ OneSeatPerAddress /\ Launched /\ Minted /\ Held /\ Seated /\ Crowned
  BY DEF IInv
<1>2. /\ procs' = [p \in DOMAIN procs |->
                       IF procs[p].handle \in hs /\ sup[procs[p].handle] = p /\ Alive(p)
                       THEN [procs[p] EXCEPT !.state = "dying"] ELSE procs[p]]
      /\ sup' = [g \in Handles |-> IF g \in hs THEN 0 ELSE sup[g]]
      /\ fleet' = fleet \ ws /\ members' = members \ ms
  BY DEF Stop, WithoutSeats
<1>3. \A p \in DOMAIN procs : procs[p] \in Process
  BY <1>1, ElementOfSeq, LenProperties DEF Typed
<1>4. \A w \in fleet : w.handle \in hs => w \in ws
  BY <1>1 DEF Launched
<1>5. Renewed
  BY <1>2, <1>3 DEF Renewed, Process, Alive
<1>6. Typed'
  <2>1. procs' \in Seq(Process)
    BY <1>1, <1>2, <1>5, RenewedIsTyped
  <2>2. sup' \in [Handles -> Nat] /\ up' \in BOOLEAN
    BY <1>1, <1>2 DEF Typed
  <2> QED BY <1>1, <1>2, <2>1, <2>2 DEF Typed
<1>7. OneSeatPerAddress'
  BY <1>1, <1>2, FewerKeep
<1>8. \A w \in fleet' : w \in fleet /\ w.handle \in Handles \ hs /\ w.handle \notin hs
  BY <1>1, <1>2, <1>4 DEF Typed, Worker
<1>9. Launched'
  BY <1>1, <1>2, <1>5, <1>8 DEF Launched, Renewed
<1>10. Minted'
  BY <1>1, <1>5 DEF Minted, Renewed
<1>11. Held'
  <2>1. SUFFICES ASSUME NEW p \in DOMAIN procs', Alive(p)'
                 PROVE  InReach(p)' \/ Astray(p)'
    BY DEF Held
  <2>2. p \in DOMAIN procs /\ procs'[p].handle = procs[p].handle
        /\ procs'[p].member = procs[p].member
    BY <1>5, <2>1 DEF Renewed
  <2>3. Alive(p)
    BY <1>2, <1>3, <2>1, <2>2 DEF Alive, Process
  <2>4. CASE Astray(p)
    <3>1. sup'[procs'[p].handle] # p
      <4>1. p # 0
        BY <1>1, <2>2, LenProperties DEF Typed
      <4> QED BY <1>2, <1>3, <2>2, <2>4, <4>1 DEF Astray, Process
    <3> QED BY <1>2, <2>2, <2>4, <3>1 DEF Astray
  <2>5. CASE InReach(p)
    <3>1. procs[p].handle \notin hs
      BY <1>2, <1>3, <2>1, <2>2, <2>3, <2>5 DEF Alive, InReach, Process
    <3>2. PICK w \in fleet : w.proc = p /\ w.state # "exited"
      BY <2>5 DEF InReach
    <3>3. w.handle = procs[p].handle /\ w.member = procs[p].member
      BY <1>1, <3>2 DEF Launched
    <3>4. w \in fleet'
      BY <1>2, <3>1, <3>2, <3>3
    <3>5. procs[p].member \notin ms
      <4>1. SUFFICES ASSUME NEW v \in ws, v.member = procs[p].member
                     PROVE  FALSE
        OBVIOUS
      <4>2. v \in fleet /\ v.proc \in DOMAIN procs /\ procs[v.proc].member = v.member
        BY <1>1 DEF Launched
      <4>3. v.proc = p
        BY <1>1, <2>2, <4>1, <4>2 DEF Minted
      <4>4. v.handle = procs[p].handle
        BY <1>1, <4>2, <4>3 DEF Launched
      <4> QED BY <3>1, <4>4
    <3>6. sup'[procs[p].handle] = p
      BY <1>2, <1>3, <2>2, <2>5, <3>1 DEF InReach, Process
    <3> QED BY <1>2, <2>2, <2>5, <3>2, <3>4, <3>5, <3>6 DEF InReach
  <2> QED BY <1>1, <2>2, <2>3, <2>4, <2>5 DEF Held
<1>12. Seated'
  <2>1. \A m \in members' : (\E w \in fleet : w.member = m) => \E w \in fleet' : w.member = m
    BY <1>2
  <2>2. up' => \A m \in members' : who'[m].worker =>
                   \/ \E w \in fleet' : w.member = m
                   \/ "admin" \in happened' /\ ~Calm({"rebind", "crash"})'
    BY <1>1, <1>2, <2>1 DEF Seated, Calm
  <2>3. ~up' => fleet' = {} /\ ~Calm({"rebind", "crash"})'
    BY <1>1, <1>2 DEF Seated, Calm
  <2> QED BY <2>2, <2>3 DEF Seated
<1>13. Crowned'
  BY <1>1 DEF Crowned
<1> QED BY <1>6, <1>7, <1>9, <1>10, <1>11, <1>12, <1>13 DEF IInv

----------------------------------------------------------------------------
(* The processes.                                                          *)

\* A process joins, or goes back to trying.
LEMMA LivesKeep ==
    ASSUME IInv, Renewed, procs' = [p \in DOMAIN procs |-> procs'[p]],
           \A p \in DOMAIN procs : Alive(p)' => Alive(p),
           UNCHANGED <<who, members, fleet, sup, up>>, happened \subseteq happened'
    PROVE  IInv'
<1>1. Typed /\ OneSeatPerAddress /\ Launched /\ Minted /\ Held /\ Seated /\ Crowned
  BY DEF IInv
<1>2. Typed'
  BY <1>1, RenewedIsTyped DEF Typed
<1>3. OneSeatPerAddress'
  BY <1>1 DEF OneSeatPerAddress, Agents
<1>4. Launched' /\ Minted'
  BY <1>1 DEF Launched, Minted, Renewed
<1>5. Held'
  BY <1>1 DEF Held, InReach, Astray, Renewed
<1>6. Seated' /\ Crowned'
  BY <1>1 DEF Seated, Crowned, Calm
<1> QED BY <1>2, <1>3, <1>4, <1>5, <1>6 DEF IInv

\* A process ends: when nobody asked for it, its worker has exited, and no other.
LEMMA EndsKeep ==
    ASSUME IInv, NEW p \in DOMAIN procs, Ends(p)
    PROVE  IInv'
<1>1. Typed /\ OneSeatPerAddress /\ Launched /\ Minted /\ Held /\ Seated /\ Crowned
  BY DEF IInv
<1>2. /\ procs' = [procs EXCEPT ![p].state = "gone"] /\ fleet' = Exited(p)
      /\ UNCHANGED <<who, members, sup, up>> /\ happened \subseteq happened'
      /\ procs[p].state = "dying" \/ Alive(p)
  BY DEF Ends, Upset, Note, Stray
<1>3. \A q \in DOMAIN procs : procs[q] \in Process
  BY <1>1, ElementOfSeq, LenProperties DEF Typed
<1>4. Renewed /\ procs'[p].state = "gone" /\ \A q \in DOMAIN procs \ {p} : procs'[q] = procs[q]
  BY <1>2, <1>3 DEF Renewed, Process
<1>5. procs' \in Seq(Process)
  BY <1>1, <1>2, <1>4, RenewedIsTyped
<1>. DEFINE after(w) == [w EXCEPT !.state = IF w.handle = procs[p].handle THEN "exited" ELSE @]
<1>6. CASE ~Reported(p)
  <2>1. fleet' = fleet
    BY <1>2, <1>6 DEF Exited
  <2>2. \A q \in DOMAIN procs : Alive(q)' => Alive(q)
    BY <1>4 DEF Alive
  <2> QED BY <1>2, <1>4, <2>1, <2>2, LivesKeep
<1>7. CASE Reported(p)
  <2>1. fleet' = {after(w) : w \in fleet} /\ sup[procs[p].handle] = p
    BY <1>1, <1>2, <1>7 DEF Exited, Reported, Stray
  <2>2. \A w \in fleet : /\ after(w) \in Worker
                         /\ after(w).handle = w.handle /\ after(w).member = w.member
                         /\ after(w).proc = w.proc
                         /\ w.handle # procs[p].handle => after(w) = w
                         /\ after(w).state = "exited" => w.state = "exited" \/ w.proc = p
    BY <1>1, <2>1 DEF Typed, Worker, Launched
  <2>. HIDE DEF after
  <2>3. Typed'
    BY <1>1, <1>2, <1>5, <2>1, <2>2 DEF Typed
  <2>4. OneSeatPerAddress'
    BY <1>1, <1>2 DEF OneSeatPerAddress, Agents
  <2>5. Launched'
    <3>1. SUFFICES ASSUME NEW w \in fleet
                   PROVE  /\ w.proc \in DOMAIN procs'
                          /\ procs'[w.proc].handle = w.handle
                          /\ procs'[w.proc].member = w.member
                          /\ sup'[w.handle] = w.proc
                          /\ after(w).state = "exited" => procs'[w.proc].state = "gone"
                          /\ \A v \in fleet : v.handle = w.handle => after(v) = after(w)
      BY <2>1, <2>2 DEF Launched
    <3> QED BY <1>1, <1>2, <1>4, <2>2 DEF Launched, Renewed
  <2>6. Minted'
    BY <1>1, <1>2, <1>4 DEF Minted, Renewed
  <2>7. Held'
    <3>1. SUFFICES ASSUME NEW q \in DOMAIN procs', Alive(q)'
                   PROVE  InReach(q)' \/ Astray(q)'
      BY DEF Held
    <3>2. q \in DOMAIN procs /\ q # p
      BY <1>4, <3>1 DEF Alive, Renewed
    <3>3. procs'[q] = procs[q] /\ Alive(q)
      BY <1>1, <1>4, <3>1, <3>2 DEF Alive
    <3>4. CASE Astray(q)
      BY <1>2, <3>3, <3>4 DEF Astray
    <3>5. CASE InReach(q)
      <4>1. PICK w \in fleet : w.proc = q /\ w.state # "exited"
        BY <3>5 DEF InReach
      <4>2. w.handle = procs[q].handle /\ w.handle # procs[p].handle
        BY <1>1, <2>1, <3>2, <3>5, <4>1 DEF Launched, InReach
      <4>3. w \in fleet'
        BY <2>1, <2>2, <4>2
      <4> QED BY <1>2, <3>3, <3>5, <4>1, <4>3 DEF InReach
    <3> QED BY <1>1, <3>2, <3>3, <3>4, <3>5 DEF Held
  <2>8. Seated' /\ Crowned'
    BY <1>1, <1>2, <2>1, <2>2 DEF Seated, Crowned, Calm
  <2> QED BY <2>3, <2>4, <2>5, <2>6, <2>7, <2>8 DEF IInv
<1> QED BY <1>6, <1>7

----------------------------------------------------------------------------
(* The specification.                                                      *)

LEMMA InitHolds ==
    ASSUME Init
    PROVE  IInv
<1>1. who = <<Owner>> /\ Owner \in Member /\ members = {1} /\ fleet = {} /\ procs = <<>>
      /\ sup = [h \in Handles |-> 0] /\ up = TRUE
  BY DEF Init, Owner, Member
<1>2. who \in Seq(Member) /\ DOMAIN who = {1} /\ who[1] = Owner
  BY <1>1
<1>3. procs \in Seq(Process) /\ DOMAIN procs = {}
  BY <1>1
<1>4. Typed
  BY <1>1, <1>2, <1>3 DEF Typed
<1>5. OneSeatPerAddress /\ Seated /\ Crowned
  BY <1>1, <1>2 DEF OneSeatPerAddress, Agents, Seated, Crowned, Owner
<1>6. Launched /\ Minted /\ Held
  BY <1>1, <1>3 DEF Launched, Minted, Held
<1> QED BY <1>4, <1>5, <1>6 DEF IInv

LEMMA StopWorkerKeeps ==
    ASSUME IInv, NEW h, StopWorker(h), happened \subseteq happened'
    PROVE  IInv'
<1>1. WorkerOf(h) \in SUBSET fleet
  BY DEF WorkerOf
<1> QED BY <1>1, StopKeeps DEF StopWorker

\* Boot takes every worker off the roster, except one that an administrator made an owner.
LEMMA RoomBootsKeeps ==
    ASSUME IInv, RoomBoots
    PROVE  IInv'
<1>1. /\ ~up /\ up' = TRUE /\ members' = members \ (Workers \ Kept)
      /\ UNCHANGED <<who, procs, fleet, sup, happened>>
      /\ fleet = {} /\ ~Calm({"rebind", "crash"})
      /\ Typed /\ OneSeatPerAddress /\ Launched /\ Minted /\ Held /\ Crowned
  BY DEF RoomBoots, IInv, Seated
<1>2. \A m \in members' : m \in members /\ (who[m].worker => "admin" \in happened)
  <2>1. ASSUME NEW m \in Kept, who[m].worker
        PROVE  "admin" \in happened
    <3>1. m \in DOMAIN who /\ who[m].role = "owner"
      BY <1>1, <2>1 DEF Kept, Owners, Typed
    <3> QED BY <1>1, <2>1, <3>1 DEF Crowned
  <2> QED BY <1>1, <2>1 DEF Workers
<1>3. Typed' /\ Launched' /\ Minted' /\ Crowned'
  BY <1>1 DEF Typed, Launched, Minted, Crowned
<1>4. OneSeatPerAddress'
  BY <1>1, FewerKeep
<1>5. Held'
  <2>1. SUFFICES ASSUME NEW p \in DOMAIN procs, Alive(p)
                 PROVE  Astray(p)'
    BY <1>1 DEF Held, Alive
  <2>2. Astray(p)
    BY <1>1, <2>1 DEF Held, InReach
  <2>3. procs[p].member \in members' => "admin" \in happened
    BY <1>1, <1>2 DEF Minted
  <2> QED BY <1>1, <2>2, <2>3 DEF Astray
<1>6. Seated'
  BY <1>1, <1>2 DEF Seated, Calm
<1> QED BY <1>3, <1>4, <1>5, <1>6 DEF IInv

\* What the room serves.
LEMMA RoomKeeps ==
    ASSUME IInv, RoomStep
    PROVE  IInv'
<1>1. ASSUME NEW h \in Handles, Closes(h)
      PROVE  IInv'
  <2>1. \A p \in DOMAIN procs : procs[p] \in Process
    BY ElementOfSeq, LenProperties DEF IInv, Typed
  <2>2. procs' = [procs EXCEPT ![seats[h].proc].state = IF @ = "joined" THEN "booting" ELSE @]
    BY <1>1 DEF Closes
  <2>3. Renewed /\ procs' = [p \in DOMAIN procs |-> procs'[p]]
    BY <2>1, <2>2 DEF Renewed, Process
  <2>4. \A p \in DOMAIN procs : Alive(p)' => Alive(p)
    BY <2>1, <2>2 DEF Alive, Process
  <2>5. UNCHANGED <<who, members, fleet, sup, up>> /\ happened \subseteq happened'
    BY <1>1 DEF Closes
  <2> QED BY <2>3, <2>4, <2>5, LivesKeep
<1>2. ASSUME NEW d \in work, Reply(d) \/ Verified(d)
      PROVE  IInv'
  <2>1. UNCHANGED kept /\ happened \subseteq happened'
    BY <1>2 DEF Reply, Verified, kept, Note
  <2> QED BY <2>1, Carries
<1>3. ASSUME NEW c \in DOMAIN calls, ServeSpawn(c)
      PROVE  IInv'
  <2>1. CASE Entitled /\ SpawnWorker /\ UNCHANGED happened
    BY <2>1, SpawnKeeps DEF Entitled, Known
  <2>2. CASE UNCHANGED room /\ happened \subseteq happened'
    <3>1. UNCHANGED kept
      BY <2>2 DEF room, kept
    <3> QED BY <2>2, <3>1, Carries
  <2> QED BY <1>3, <2>1, <2>2 DEF ServeSpawn, Upset, Note
<1>4. ASSUME NEW c \in DOMAIN calls, ServeStop(c)
      PROVE  IInv'
  <2>1. CASE StopWorker(calls[c].handle) /\ UNCHANGED happened
    BY <2>1, StopWorkerKeeps
  <2>2. CASE UNCHANGED room /\ UNCHANGED happened
    <3>1. UNCHANGED kept
      BY <2>2 DEF room, kept
    <3> QED BY <2>2, <3>1, Carries
  <2> QED BY <1>4, <2>1, <2>2 DEF ServeStop
<1>5. CASE RoomBoots
  BY <1>5, RoomBootsKeeps
<1> QED BY <1>1, <1>2, <1>3, <1>4, <1>5 DEF RoomStep, Serves

\* A room that is stopped takes its workers with it, one that crashes leaves them all.
LEMMA RoomEndsKeep ==
    ASSUME IInv, RoomStops \/ RoomCrashes
    PROVE  IInv'
<1>1. CASE RoomStops
  <2>1. /\ up' = FALSE /\ UNCHANGED who /\ happened \subseteq happened' /\ Stop(fleet)
        /\ ~Calm({"rebind", "crash"})'
    BY <1>1 DEF RoomStops, Down, Upset, Note, Calm
  <2> QED BY <2>1, StopKeeps
<1>2. CASE RoomCrashes
  <2>1. /\ up' = FALSE /\ UNCHANGED <<who, members>> /\ happened' = happened \cup {"crash"}
        /\ procs' = [p \in DOMAIN procs |->
                       [procs[p] EXCEPT !.state = IF @ = "joined" THEN "booting" ELSE @]]
        /\ sup' = [h \in Handles |-> 0] /\ fleet' = {}
    BY <1>2 DEF RoomCrashes, Down, Upset, Note
  <2>2. Typed /\ OneSeatPerAddress /\ Minted /\ Crowned
    BY DEF IInv
  <2>3. \A p \in DOMAIN procs : procs[p] \in Process /\ p # 0
    BY <2>2, ElementOfSeq, LenProperties DEF Typed
  <2>4. Renewed
    BY <2>1, <2>3 DEF Renewed, Process
  <2>5. procs' \in Seq(Process)
    BY <2>1, <2>2, <2>4, RenewedIsTyped
  <2>6. Typed'
    BY <2>1, <2>2, <2>5 DEF Typed
  <2>7. OneSeatPerAddress'
    BY <2>1, <2>2, FewerKeep
  <2>8. Minted'
    <3>1. UNCHANGED who
      BY <2>1
    <3> QED BY <2>2, <2>4, <3>1 DEF Minted, Renewed
  <2>9. Held'
    <3>1. ASSUME NEW p \in DOMAIN procs'
          PROVE  Astray(p)'
      <4>1. p \in DOMAIN procs /\ procs'[p].handle \in Handles
        BY <2>4, <3>1 DEF Renewed, Process
      <4> QED BY <2>1, <2>3, <4>1 DEF Astray
    <3> QED BY <3>1 DEF Held
  <2>10. Launched' /\ Seated' /\ Crowned'
    BY <2>1, <2>2 DEF Launched, Seated, Crowned, Calm
  <2> QED BY <2>6, <2>7, <2>8, <2>9, <2>10 DEF IInv
<1> QED BY <1>1, <1>2

LEMMA StepHolds ==
    ASSUME IInv, [Next]_vars
    PROVE  IInv'
<1>1. CASE Administer
  BY <1>1, AdminKeeps
<1>2. CASE Foreign
  <2>1. up /\ happened \subseteq happened'
    BY <1>2 DEF Foreign, Upset, Note
  <2>2. CASE SpawnWorker
    BY <2>1, <2>2, SpawnKeeps
  <2>3. ASSUME NEW h \in Handles, StopWorker(h) PROVE IInv'
    BY <2>1, <2>3, StopWorkerKeeps
  <2> QED BY <1>2, <2>2, <2>3 DEF Foreign
<1>3. CASE RoomStep
  BY <1>3, RoomKeeps
<1>4. CASE PoolStep
  <2>1. UNCHANGED kept /\ happened \subseteq happened'
    BY <1>4 DEF PoolStep, Settles, Answered, ApplyRoomEvent, FeedOpens, room, kept, Note
  <2> QED BY <2>1, Carries
<1>5. ASSUME NEW p \in DOMAIN procs, Joins(p)
      PROVE  IInv'
  <2>1. \A q \in DOMAIN procs : procs[q] \in Process
    BY ElementOfSeq, LenProperties DEF IInv, Typed
  <2>2. /\ procs' = [procs EXCEPT ![p].state = "joined"] /\ procs[p].state = "booting"
        /\ UNCHANGED <<who, members, fleet, sup, up, happened>>
    BY <1>5 DEF Joins
  <2>3. Renewed /\ procs' = [q \in DOMAIN procs |-> procs'[q]]
    BY <2>1, <2>2 DEF Renewed, Process
  <2>4. \A q \in DOMAIN procs : Alive(q)' => Alive(q)
    BY <2>1, <2>2 DEF Alive, Process
  <2> QED BY <2>2, <2>3, <2>4, LivesKeep
<1>6. ASSUME NEW p \in DOMAIN procs, Ends(p)
      PROVE  IInv'
  BY <1>6, EndsKeep
<1>7. ASSUME NEW h \in Handles, Delegate(h) \/ ClickStop(h)
      PROVE  IInv'
  <2>1. UNCHANGED kept /\ happened \subseteq happened'
    BY <1>7 DEF Delegate, ClickStop, room, kept
  <2> QED BY <2>1, Carries
<1>8. CASE RoomStops \/ RoomCrashes
  BY <1>8, RoomEndsKeep
<1>9. CASE ClickAdd \/ EnsureOne \/ FeedDrops \/ UNCHANGED vars
  <2>1. UNCHANGED kept /\ happened \subseteq happened'
    BY <1>9 DEF ClickAdd, EnsureOne, FeedDrops, Upset, Note, vars, room, kept
  <2> QED BY <2>1, Carries
<1> QED BY <1>1, <1>2, <1>3, <1>4, <1>5, <1>6, <1>7, <1>8, <1>9 DEF Next, ProcStep

\* The invariant holds in every state of every behaviour.
THEOREM FleetInductive == Spec => []IInv
<1>1. Init => IInv
  BY InitHolds
<1>2. IInv /\ [Next]_vars => IInv'
  BY StepHolds
<1> QED BY <1>1, <1>2, PTL DEF Spec

\* Through invites, renames, bans, stops and handles that come back, no two members
\* share a name and no two agents a handle: admin.mjs, nextHandle in workers.mjs.
THEOREM AddressesStayUnique == Spec => []OneSeatPerAddress
<1>1. IInv => OneSeatPerAddress
  BY DEF IInv
<1> QED BY <1>1, FleetInductive, PTL

\* While the room runs, every worker process is one the fleet can stop or one that a crash
\* left behind without a seat, every worker on the roster is the fleet's unless an
\* administrator saw to it, and one is reported as exited for its own end only.
THEOREM WorkersStayAccounted == Spec => []WorkersAreAccounted
<1>1. IInv => WorkersAreAccounted
  BY DEF IInv, Held, InReach, Astray, Stray, Seated, Workers, Launched, WorkersAreAccounted
<1> QED BY <1>1, FleetInductive, PTL

----------------------------------------------------------------------------
(* What the sidebar shows. A row is what its worker is once the answer and the  *)
(* frames on their way are in: Rows says so of every state, and not only of     *)
(* those in which nothing is on its way.                                       *)

\* What only is so when somebody upsets the room, or a frame or an answer is untimely.
Stirs == {"exit", "drop", "rebind", "crash", "admin", "foreign", "late"}

Told    == [event : {"seat-online", "activity", "sent", "done", "abandoned"}, handle : Handles,
            member : Nat]
Request == [kind : {"spawn", "stop"}, handle : 0..MaxMembers, answer : {"none", "ok", "refused"}]
Holder  == [member : Nat, proc : Nat, ending : BOOLEAN]
Task    == [id : Nat, handle : Handles, member : Nat, stage : {"out", "done", "abandoned"}]
Row     == {"none", "starting", "idle", "busy"}

Shaped == /\ feed \in [open : BOOLEAN, frames : Seq(Told)]
          /\ calls \in Seq(Request) /\ pool \in [Handles -> Row]
          /\ seats \in [Handles -> Holder] /\ work \subseteq Task /\ acts \in Nat

\* The handle and the member are those of a worker there is or was.
Worked(ps, h, m) == \E p \in DOMAIN ps : ps[p].handle = h /\ ps[p].member = m

\* Whom frames, delegations and seats are about; and a worker's member has its handle.
Named ==
    /\ \A i \in DOMAIN feed.frames : Worked(procs, feed.frames[i].handle, feed.frames[i].member)
    /\ \A d \in work : Worked(procs, d.handle, d.member)
    /\ \A h \in Handles : seats[h] # Nobody =>
          /\ seats[h].proc \in DOMAIN procs
          /\ procs[seats[h].proc].handle = h /\ procs[seats[h].proc].member = seats[h].member
    /\ \A p \in DOMAIN procs : /\ who[procs[p].member].handle = procs[p].handle
                               /\ who[procs[p].member].kind = "agent"
    /\ \A m \in DOMAIN who : who[m].kind # "agent" => who[m].handle = 0
    /\ 1 \in DOMAIN who /\ ~who[1].worker

\* While nothing stirs, the room and the feed are up, and a worker lives and is a member.
Undisturbed ==
    Calm(Stirs) => /\ up /\ feed.open
                   /\ \A w \in fleet : Alive(w.proc) /\ w.member \in members

Tells(f)       == f.event \in {"sent", "done", "abandoned"}
Busy(w, tasks) == \E d \in tasks : d.member = w.member

\* Frames turn a row into that of a worker whose seat is online, and which is busy or not:
\* it is starting as long as the frame of its coming online is not applied, which is the
\* first about it; and the last that tells of its work tells the truth.
Turns(row, w, list, busy) ==
    /\ row = "starting" <=> \E i \in DOMAIN list : list[i].member = w.member /\ list[i].event = "seat-online"
    /\ \A i, j \in DOMAIN list :
          list[i].member = w.member /\ list[i].event = "seat-online" /\ list[j].member = w.member
          => i = j \/ i < j
    /\ (\A i \in DOMAIN list : list[i].member = w.member => ~Tells(list[i])) => (row = "busy" <=> busy)
    /\ \A i \in DOMAIN list :
          list[i].member = w.member /\ Tells(list[i]) =>
             \/ \E j \in DOMAIN list : i < j /\ list[j].member = w.member /\ Tells(list[j])
             \/ list[i].event = "sent" <=> busy

\* A row that becomes the worker's state with the frames to come.
Follows(row, w, seat, list, tasks) ==
    /\ row \in {"starting", "idle", "busy"}
    /\ IF seat.member = w.member
       THEN seat.proc = w.proc /\ ~seat.ending /\ Turns(row, w, list, Busy(w, tasks))
       ELSE /\ row = "starting" /\ ~Busy(w, tasks)
            /\ \A i \in DOMAIN list : list[i].member # w.member

\* Call k was served, and its answer about h is on its way.
Owed(h, k) == k \in DOMAIN calls /\ calls[k].answer = "ok" /\ calls[k].handle = h

\* The row of h is its worker's, when no answer about it is to come; and what it is when
\* one comes: where two are, they cross.
RowOf(h) ==
    /\ (\A k \in DOMAIN calls : ~Owed(h, k)) =>
          /\ WorkerOf(h) = {} => pool[h] = "none"
          /\ \A w \in WorkerOf(h) : Follows(pool[h], w, seats[h], feed.frames, work)
    /\ \A k \in DOMAIN calls :
          Owed(h, k) /\ (\A j \in DOMAIN calls : Owed(h, j) => j = k) =>
              IF calls[k].kind = "stop" THEN WorkerOf(h) = {}
              ELSE /\ WorkerOf(h) # {}
                   /\ \A w \in WorkerOf(h) : Follows("starting", w, seats[h], feed.frames, work)

Rows == Calm(Stirs) => \A h \in Handles : RowOf(h)

SInv == Shaped /\ Named /\ Undisturbed /\ Rows

----------------------------------------------------------------------------
(* Frames and the row they make.                                           *)

LEMMA FramesAre ==
    ASSUME NEW list \in Seq(Told)
    PROVE  /\ DOMAIN list = 1..Len(list) /\ Len(list) \in Nat
           /\ \A i \in DOMAIN list : list[i] \in Told /\ i \in Nat
OBVIOUS

LEMMA AppendIs ==
    ASSUME NEW S, NEW list \in Seq(S), NEW f \in S
    PROVE  /\ Append(list, f) \in Seq(S)
           /\ DOMAIN Append(list, f) = DOMAIN list \cup {Len(list) + 1}
           /\ Append(list, f)[Len(list) + 1] = f
           /\ \A i \in DOMAIN list : /\ Append(list, f)[i] = list[i] /\ i < Len(list) + 1
                                     /\ ~(Len(list) + 1 < i) /\ Len(list) + 1 # i
<1>1. DOMAIN list = 1..Len(list) /\ Len(list) \in Nat
  OBVIOUS
<1>2. /\ DOMAIN Append(list, f) = 1..(Len(list) + 1) /\ Append(list, f) \in Seq(S)
      /\ Append(list, f)[Len(list) + 1] = f
      /\ \A i \in 1..Len(list) : Append(list, f)[i] = list[i]
  BY AppendProperties
<1> QED BY <1>1, <1>2

LEMMA TailIs ==
    ASSUME NEW list \in Seq(Told), list # <<>>
    PROVE  /\ Tail(list) \in Seq(Told) /\ 1 \in DOMAIN list /\ Head(list) = list[1] /\ Head(list) \in Told
           /\ \A i \in DOMAIN Tail(list) : /\ Tail(list)[i] = list[i + 1] /\ i + 1 \in DOMAIN list
                                           /\ i \in Nat /\ i # 0
           /\ \A i \in DOMAIN list : i = 1 \/ (/\ i - 1 \in DOMAIN Tail(list) /\ 1 < i /\ i \in Nat
                                               /\ Tail(list)[i - 1] = list[i])
<1>1. /\ Tail(list) \in Seq(Told) /\ Len(Tail(list)) = Len(list) - 1 /\ Len(list) \in Nat
      /\ Len(list) > 0 /\ DOMAIN list = 1..Len(list) /\ DOMAIN Tail(list) = 1..(Len(list) - 1)
      /\ \A i \in DOMAIN Tail(list) : Tail(list)[i] = list[i + 1]
      /\ Head(list) = list[1] /\ list[1] \in Told
  OBVIOUS
<1> QED BY <1>1

\* A frame about another worker.
LEMMA TurnsBesides ==
    ASSUME NEW list \in Seq(Told), NEW f \in Told, NEW w, f.member # w.member, NEW row, NEW busy
    PROVE  Turns(row, w, Append(list, f), busy) <=> Turns(row, w, list, busy)
<1> DEFINE longer == Append(list, f)
           last == Len(list) + 1
<1>1. /\ DOMAIN longer = DOMAIN list \cup {last} /\ longer[last] = f
      /\ \A i \in DOMAIN list : longer[i] = list[i]
  BY AppendIs
<1> HIDE DEF longer, last
<1>2. Turns(row, w, longer, busy) <=> Turns(row, w, list, busy)
  BY <1>1 DEF Turns
<1> QED BY <1>2 DEF longer

\* The seat comes online.
LEMMA TurnsOnline ==
    ASSUME NEW list \in Seq(Told), NEW f \in Told, NEW w, f.member = w.member, f.event = "seat-online",
           \A i \in DOMAIN list : list[i].member # w.member
    PROVE  Turns("starting", w, Append(list, f), FALSE)
<1> DEFINE longer == Append(list, f)
           last == Len(list) + 1
<1>1. /\ DOMAIN longer = DOMAIN list \cup {last} /\ longer[last] = f
      /\ \A i \in DOMAIN list : longer[i] = list[i]
  BY AppendIs
<1> HIDE DEF longer, last
<1>2. Turns("starting", w, longer, FALSE)
  BY <1>1 DEF Turns, Tells
<1> QED BY <1>2 DEF longer

\* Its work is told: a delegation, or the end of the last one.
LEMMA TurnsTold ==
    ASSUME NEW list \in Seq(Told), NEW f \in Told, NEW w, f.member = w.member, Tells(f), NEW row,
           NEW busy, NEW now \in BOOLEAN, Turns(row, w, list, busy), f.event = "sent" <=> now
    PROVE  Turns(row, w, Append(list, f), now)
<1> DEFINE longer == Append(list, f)
           last == Len(list) + 1
<1>1. /\ DOMAIN longer = DOMAIN list \cup {last} /\ longer[last] = f
      /\ \A i \in DOMAIN list : longer[i] = list[i] /\ i < last
  BY AppendIs
<1> HIDE DEF longer, last
<1>2. f.event # "seat-online"
  BY DEF Tells
<1>3. row = "starting" <=> \E i \in DOMAIN longer : longer[i].member = w.member /\ longer[i].event = "seat-online"
  BY <1>1, <1>2 DEF Turns
<1>4. \A i, j \in DOMAIN longer :
          longer[i].member = w.member /\ longer[i].event = "seat-online" /\ longer[j].member = w.member
          => i = j \/ i < j
  BY <1>1, <1>2 DEF Turns
<1>5. ~\A i \in DOMAIN longer : longer[i].member = w.member => ~Tells(longer[i])
  BY <1>1
<1>6. \A i \in DOMAIN longer :
          longer[i].member = w.member /\ Tells(longer[i]) =>
             \/ \E j \in DOMAIN longer : i < j /\ longer[j].member = w.member /\ Tells(longer[j])
             \/ longer[i].event = "sent" <=> now
  BY <1>1
<1>7. Turns(row, w, longer, now)
  BY <1>3, <1>4, <1>5, <1>6 DEF Turns
<1> QED BY <1>7 DEF longer

\* Its reply is in.
LEMMA TurnsReplied ==
    ASSUME NEW list \in Seq(Told), NEW f \in Told, NEW w, f.event = "activity", NEW row,
           NEW busy, Turns(row, w, list, busy)
    PROVE  Turns(row, w, Append(list, f), busy)
<1> DEFINE longer == Append(list, f)
           last == Len(list) + 1
<1>1. /\ DOMAIN longer = DOMAIN list \cup {last} /\ longer[last] = f
      /\ \A i \in DOMAIN list : longer[i] = list[i] /\ i < last
  BY AppendIs
<1> HIDE DEF longer, last
<1>2. f.event # "seat-online" /\ ~Tells(f)
  BY DEF Tells
<1>3. row = "starting" <=> \E i \in DOMAIN longer : longer[i].member = w.member /\ longer[i].event = "seat-online"
  BY <1>1, <1>2 DEF Turns
<1>4. \A i, j \in DOMAIN longer :
          longer[i].member = w.member /\ longer[i].event = "seat-online" /\ longer[j].member = w.member
          => i = j \/ i < j
  BY <1>1, <1>2 DEF Turns
<1>5. (\A i \in DOMAIN longer : longer[i].member = w.member => ~Tells(longer[i])) => (row = "busy" <=> busy)
  BY <1>1 DEF Turns
<1>6. ASSUME NEW i \in DOMAIN longer, longer[i].member = w.member, Tells(longer[i])
      PROVE  \/ \E j \in DOMAIN longer : i < j /\ longer[j].member = w.member /\ Tells(longer[j])
             \/ longer[i].event = "sent" <=> busy
  <2>1. i \in DOMAIN list /\ list[i] = longer[i]
    BY <1>1, <1>2, <1>6
  <2> QED BY <1>1, <1>6, <2>1 DEF Turns
<1>7. Turns(row, w, longer, busy)
  BY <1>3, <1>4, <1>5, <1>6 DEF Turns
<1> QED BY <1>7 DEF longer

\* A frame about another worker is applied.
LEMMA TurnsPast ==
    ASSUME NEW list \in Seq(Told), list # <<>>, NEW w, Head(list).member # w.member, NEW row, NEW busy,
           Turns(row, w, list, busy)
    PROVE  Turns(row, w, Tail(list), busy)
<1> DEFINE rest == Tail(list)
<1>1. /\ list[1].member # w.member
      /\ \A i \in DOMAIN rest : rest[i] = list[i + 1] /\ i + 1 \in DOMAIN list /\ i \in Nat /\ i # 0
      /\ \A i \in DOMAIN list : i = 1 \/ (i - 1 \in DOMAIN rest /\ i \in Nat /\ 1 < i /\ rest[i - 1] = list[i])
  BY TailIs
<1> HIDE DEF rest
<1>2. row = "starting" <=> \E i \in DOMAIN rest : rest[i].member = w.member /\ rest[i].event = "seat-online"
  BY <1>1 DEF Turns
<1>3. \A i, j \in DOMAIN rest :
          rest[i].member = w.member /\ rest[i].event = "seat-online" /\ rest[j].member = w.member
          => i = j \/ i < j
  <2> TAKE i, j \in DOMAIN rest
  <2> HAVE rest[i].member = w.member /\ rest[i].event = "seat-online" /\ rest[j].member = w.member
  <2>1. i + 1 = j + 1 \/ i + 1 < j + 1
    BY <1>1 DEF Turns
  <2> QED BY <1>1, <2>1
<1>4. (\A i \in DOMAIN rest : rest[i].member = w.member => ~Tells(rest[i])) => (row = "busy" <=> busy)
  BY <1>1 DEF Turns
<1>5. ASSUME NEW i \in DOMAIN rest, rest[i].member = w.member, Tells(rest[i])
      PROVE  \/ \E j \in DOMAIN rest : i < j /\ rest[j].member = w.member /\ Tells(rest[j])
             \/ rest[i].event = "sent" <=> busy
  <2>0. i + 1 \in DOMAIN list /\ list[i + 1] = rest[i]
    BY <1>1, <1>5
  <2>1. \/ \E j \in DOMAIN list : i + 1 < j /\ list[j].member = w.member /\ Tells(list[j])
        \/ rest[i].event = "sent" <=> busy
    BY <1>5, <2>0 DEF Turns
  <2>2. ASSUME NEW j \in DOMAIN list, i + 1 < j, list[j].member = w.member, Tells(list[j])
        PROVE  j - 1 \in DOMAIN rest /\ i < j - 1 /\ rest[j - 1].member = w.member /\ Tells(rest[j - 1])
    <3>1. j # 1 /\ i \in Nat
      BY <1>1, <1>5, <2>2
    <3> QED BY <1>1, <2>2, <3>1
  <2> QED BY <2>1, <2>2
<1>6. Turns(row, w, rest, busy)
  BY <1>2, <1>3, <1>4, <1>5 DEF Turns
<1> QED BY <1>6 DEF rest

\* A frame about the worker is applied to its row.
LEMMA TurnsApplied ==
    ASSUME NEW list \in Seq(Told), list # <<>>, NEW w, Head(list).member = w.member,
           NEW row \in {"starting", "idle", "busy"}, NEW busy \in BOOLEAN, Turns(row, w, list, busy)
    PROVE  /\ Applied(Head(list).event, row) \in {"starting", "idle", "busy"}
           /\ Turns(Applied(Head(list).event, row), w, Tail(list), busy)
<1> DEFINE rest == Tail(list)
           e == Head(list).event
           next == Applied(e, row)
<1>1. /\ list[1].member = w.member /\ list[1].event = e /\ 1 \in DOMAIN list
      /\ \A i \in DOMAIN rest : rest[i] = list[i + 1] /\ i + 1 \in DOMAIN list /\ i \in Nat /\ i # 0
      /\ \A i \in DOMAIN list : i = 1 \/ (i - 1 \in DOMAIN rest /\ i \in Nat /\ 1 < i /\ rest[i - 1] = list[i])
      /\ e \in {"seat-online", "activity", "sent", "done", "abandoned"}
  <2>1. Head(list) \in Told /\ Head(list) = list[1]
    BY TailIs
  <2>2. e \in {"seat-online", "activity", "sent", "done", "abandoned"}
    BY <2>1 DEF Told
  <2> QED BY <2>1, <2>2, TailIs
<1> HIDE DEF rest, e
<1>2. \A i \in DOMAIN rest : rest[i].member = w.member => rest[i].event # "seat-online"
  <2> SUFFICES ASSUME NEW i \in DOMAIN rest, rest[i].member = w.member, rest[i].event = "seat-online"
               PROVE  FALSE
    OBVIOUS
  <2>1. i + 1 = 1 \/ i + 1 < 1
    BY <1>1 DEF Turns
  <2> QED BY <1>1, <2>1
<1>3. next # "starting" /\ next \in {"idle", "busy"}
  <2>1. CASE e = "seat-online"
    <3>1. row = "starting"
      BY <1>1, <2>1 DEF Turns
    <3> QED BY <2>1, <3>1 DEF Applied
  <2>2. CASE e # "seat-online"
    <3>1. row # "starting"
      BY <1>1, <1>2, <2>2 DEF Turns
    <3> QED BY <1>1, <2>2, <3>1 DEF Applied
  <2> QED BY <2>1, <2>2
<1>4. (\A i \in DOMAIN rest : rest[i].member = w.member => ~Tells(rest[i])) => (next = "busy" <=> busy)
  <2> SUFFICES ASSUME \A i \in DOMAIN rest : rest[i].member = w.member => ~Tells(rest[i])
               PROVE  next = "busy" <=> busy
    OBVIOUS
  <2>0. ASSUME NEW j \in DOMAIN list, 1 < j
        PROVE  ~(list[j].member = w.member /\ Tells(list[j]))
    <3>1. j - 1 \in DOMAIN rest /\ rest[j - 1] = list[j]
      BY <1>1, <2>0
    <3> QED BY <3>1
  <2>1. CASE Tells(list[1])
    <3>1. e = "sent" <=> busy
      BY <1>1, <2>0, <2>1 DEF Turns
    <3>2. next = IF e = "sent" THEN "busy" ELSE "idle"
      BY <1>1, <2>1 DEF Tells, Applied
    <3> QED BY <3>1, <3>2
  <2>2. CASE ~Tells(list[1])
    <3>1. row = "busy" <=> busy
      BY <1>1, <2>0, <2>2 DEF Turns
    <3>2. CASE e = "seat-online"
      <4>1. row = "starting"
        BY <1>1, <3>2 DEF Turns
      <4> QED BY <3>1, <3>2, <4>1 DEF Applied
    <3>3. CASE e = "activity"
      <4>1. row # "starting"
        BY <1>1, <1>2, <3>3 DEF Turns
      <4> QED BY <3>1, <3>3, <4>1 DEF Applied
    <3> QED BY <1>1, <2>2, <3>2, <3>3 DEF Tells
  <2> QED BY <2>1, <2>2
<1>5. ASSUME NEW i \in DOMAIN rest, rest[i].member = w.member, Tells(rest[i])
      PROVE  \/ \E j \in DOMAIN rest : i < j /\ rest[j].member = w.member /\ Tells(rest[j])
             \/ rest[i].event = "sent" <=> busy
  <2>0. i + 1 \in DOMAIN list /\ list[i + 1] = rest[i]
    BY <1>1, <1>5
  <2>1. \/ \E j \in DOMAIN list : i + 1 < j /\ list[j].member = w.member /\ Tells(list[j])
        \/ rest[i].event = "sent" <=> busy
    BY <1>5, <2>0 DEF Turns
  <2>2. ASSUME NEW j \in DOMAIN list, i + 1 < j, list[j].member = w.member, Tells(list[j])
        PROVE  j - 1 \in DOMAIN rest /\ i < j - 1 /\ rest[j - 1].member = w.member /\ Tells(rest[j - 1])
    <3>1. j # 1 /\ i \in Nat
      BY <1>1, <1>5, <2>2
    <3> QED BY <1>1, <2>2, <3>1
  <2> QED BY <2>1, <2>2
<1>6. Turns(next, w, rest, busy)
  BY <1>2, <1>3, <1>4, <1>5 DEF Turns
<1> QED BY <1>3, <1>6 DEF rest, e

----------------------------------------------------------------------------
(* Whom the frames, the work and the seats are about.                      *)

\* Processes and members only come, and stay what they are.
Lasting == /\ \A p \in DOMAIN procs : /\ p \in DOMAIN procs'
                                      /\ procs'[p].handle = procs[p].handle
                                      /\ procs'[p].member = procs[p].member
           /\ \A p \in DOMAIN procs' : /\ who'[procs'[p].member].handle = procs'[p].handle
                                       /\ who'[procs'[p].member].kind = "agent"
           /\ \A m \in DOMAIN who' : who'[m].kind # "agent" => who'[m].handle = 0
           /\ 1 \in DOMAIN who' /\ ~who'[1].worker

LEMMA TypesAre ==
    ASSUME Typed
    PROVE  /\ \A p \in DOMAIN procs : procs[p] \in Process /\ p \in Nat /\ p # 0
           /\ \A m \in DOMAIN who : who[m] \in Member /\ m \in Nat /\ m # 0
           /\ \A m \in members : m \in DOMAIN who
           /\ DOMAIN procs = 1..Len(procs) /\ Len(procs) \in Nat
           /\ DOMAIN who = 1..Len(who) /\ Len(who) \in Nat
BY DEF Typed

LEMMA HandlesAre == Handles \subseteq Nat /\ Handles \subseteq 0..MaxMembers /\ 0 \notin Handles
BY FleetAssumption DEF Handles

\* What is about a worker's member bears its handle.
LEMMA TellsHandle ==
    ASSUME Launched, Minted, NEW w \in fleet, NEW h, Worked(procs, h, w.member)
    PROVE  w.handle = h
BY DEF Launched, Minted, Worked

LEMMA WorkedIsMember ==
    ASSUME Typed, Minted, NEW h, NEW m, Worked(procs, h, m)
    PROVE  m \in DOMAIN who /\ m \in Nat /\ m # 0
BY TypesAre DEF Minted, Worked

LEMMA WorkedLasts ==
    ASSUME Lasting, NEW h, NEW m, Worked(procs, h, m)
    PROVE  Worked(procs', h, m)
BY DEF Lasting, Worked

\* A worker of the fleet is in one row.
LEMMA RowIsOnes ==
    ASSUME Launched, NEW h
    PROVE  /\ \A v, w \in WorkerOf(h) : v = w
           /\ \A w \in WorkerOf(h) : w \in fleet /\ w.handle = h
BY DEF Launched, WorkerOf

\* The seat that holds a handle is no other's.
LEMMA SeatIs ==
    ASSUME IInv, Shaped, Named, NEW h \in Handles, seats[h] # Nobody
    PROVE  /\ Worked(procs, h, seats[h].member) /\ seats[h] \in Holder
           /\ seats[h].member \in DOMAIN who /\ seats[h].member # 0
           /\ seats[h].proc \in DOMAIN procs /\ seats[h].proc # 0
           /\ procs[seats[h].proc].handle = h /\ procs[seats[h].proc].member = seats[h].member
           /\ \A w \in fleet : w.member = seats[h].member => w.handle = h
<1>1. Worked(procs, h, seats[h].member) /\ seats[h] \in Holder
  BY DEF Named, Worked, Shaped
<1>2. seats[h].member \in DOMAIN who /\ seats[h].member # 0
  BY <1>1, WorkedIsMember DEF IInv
<1>3. \A w \in fleet : w.member = seats[h].member => w.handle = h
  BY <1>1, TellsHandle DEF IInv
<1> QED BY <1>1, <1>2, <1>3, TypesAre DEF Named, IInv

\* A worker's member is one of those ever made.
LEMMA WorkerIs ==
    ASSUME IInv, NEW w \in fleet
    PROVE  /\ w.member \in DOMAIN who /\ w.member # 0 /\ w.proc \in DOMAIN procs
           /\ Worked(procs, w.handle, w.member) /\ who[w.member].worker /\ w.handle \in Handles
           /\ procs[w.proc].handle = w.handle /\ procs[w.proc].member = w.member
<1>1. w.proc \in DOMAIN procs /\ procs[w.proc].handle = w.handle /\ procs[w.proc].member = w.member
  BY DEF IInv, Launched
<1>2. w.member \in DOMAIN who /\ who[w.member].worker /\ w.handle \in Handles
  BY <1>1 DEF IInv, Minted, Typed, Worker
<1> QED BY <1>1, <1>2, TypesAre DEF Worked, IInv

LEMMA NamedLasts ==
    ASSUME Named, Lasting,
           \A i \in DOMAIN feed'.frames : Worked(procs', feed'.frames[i].handle, feed'.frames[i].member),
           \A d \in work' : Worked(procs', d.handle, d.member),
           \A h \in Handles : seats'[h] # Nobody =>
               \/ seats'[h].proc = seats[h].proc /\ seats'[h].member = seats[h].member /\ seats[h] # Nobody
               \/ /\ seats'[h].proc \in DOMAIN procs'
                  /\ procs'[seats'[h].proc].handle = h /\ procs'[seats'[h].proc].member = seats'[h].member
    PROVE  Named'
<1>1. \A h \in Handles : seats'[h] # Nobody =>
          /\ seats'[h].proc \in DOMAIN procs'
          /\ procs'[seats'[h].proc].handle = h /\ procs'[seats'[h].proc].member = seats'[h].member
  BY DEF Named, Lasting
<1> QED BY <1>1 DEF Named, Lasting

\* The roster and the processes are as they were, but for the states.
LEMMA LastsRenewed ==
    ASSUME Named, Renewed, UNCHANGED who
    PROVE  Lasting
BY DEF Named, Renewed, Lasting

LEMMA LastsSame ==
    ASSUME Named, UNCHANGED <<who, procs>>
    PROVE  Lasting
BY DEF Named, Lasting

\* Frames and work that were there before.
LEMMA FramesLast ==
    ASSUME Named, Lasting
    PROVE  /\ \A i \in DOMAIN feed.frames : Worked(procs', feed.frames[i].handle, feed.frames[i].member)
           /\ \A d \in work : Worked(procs', d.handle, d.member)
<1>1. \A i \in DOMAIN feed.frames : Worked(procs, feed.frames[i].handle, feed.frames[i].member)
  BY DEF Named
<1>2. \A d \in work : Worked(procs, d.handle, d.member)
  BY DEF Named
<1> QED BY <1>1, <1>2, WorkedLasts

\* One more frame, if the subscription hears it.
LEMMA HeardIs ==
    ASSUME Shaped, NEW f \in Told, Heard(<<f>>)
    PROVE  /\ feed' \in [open : BOOLEAN, frames : Seq(Told)]
           /\ feed'.open = feed.open
           /\ feed'.frames = IF feed.open THEN Append(feed.frames, f) ELSE feed.frames
<1>1. feed \in [open : BOOLEAN, frames : Seq(Told)]
  BY DEF Shaped
<1>2. feed.frames \in Seq(Told)
  BY <1>1
<1>3. feed.frames \o <<f>> = Append(feed.frames, f) /\ Append(feed.frames, f) \in Seq(Told)
  BY <1>2
<1> QED BY <1>1, <1>3 DEF Heard

LEMMA FramesHeard ==
    ASSUME Shaped, Named, Lasting, NEW f \in Told, Heard(<<f>>), Worked(procs', f.handle, f.member)
    PROVE  \A i \in DOMAIN feed'.frames : Worked(procs', feed'.frames[i].handle, feed'.frames[i].member)
<1>1. feed.frames \in Seq(Told)
  BY DEF Shaped
<1>2. CASE feed.open
  <2>1. feed'.frames = Append(feed.frames, f)
    BY <1>2, HeardIs
  <2>2. ASSUME NEW i \in DOMAIN feed'.frames
        PROVE  feed'.frames[i] = f \/ (i \in DOMAIN feed.frames /\ feed'.frames[i] = feed.frames[i])
    <3>. DEFINE list == feed.frames
    <3>1. /\ DOMAIN Append(list, f) = DOMAIN list \cup {Len(list) + 1}
          /\ Append(list, f)[Len(list) + 1] = f
          /\ \A j \in DOMAIN list : Append(list, f)[j] = list[j]
      BY <1>1, AppendIs
    <3> HIDE DEF list
    <3>2. i \in DOMAIN list \/ i = Len(list) + 1
      BY <2>1, <3>1 DEF list
    <3> QED BY <2>1, <3>1, <3>2 DEF list
  <2> QED BY <2>2, FramesLast
<1>3. CASE ~feed.open
  <2>1. feed'.frames = feed.frames
    BY <1>3, HeardIs
  <2> QED BY <2>1, FramesLast
<1> QED BY <1>2, <1>3

----------------------------------------------------------------------------
(* What keeps a row.                                                       *)

LEMMA CalmBefore ==
    ASSUME happened \subseteq happened', Calm(Stirs)'
    PROVE  Calm(Stirs)
BY DEF Calm

LEMMA RowKept ==
    ASSUME NEW h, RowOf(h), WorkerOf(h)' = WorkerOf(h), pool'[h] = pool[h],
           \A k : Owed(h, k)' <=> Owed(h, k),
           \A k \in DOMAIN calls : Owed(h, k) => calls'[k].kind = calls[k].kind,
           \A w \in WorkerOf(h) : \A row :
               Follows(row, w, seats[h], feed.frames, work) => Follows(row, w, seats'[h], feed'.frames, work')
    PROVE  RowOf(h)'
<1>1. \A k : (Owed(h, k) => k \in DOMAIN calls) /\ (Owed(h, k)' => k \in DOMAIN calls')
  BY DEF Owed
<1>2. ASSUME \A k \in DOMAIN calls' : ~Owed(h, k)'
      PROVE  /\ WorkerOf(h) = {} => pool'[h] = "none"
             /\ \A w \in WorkerOf(h) : Follows(pool'[h], w, seats'[h], feed'.frames, work')
  <2>1. \A k \in DOMAIN calls : ~Owed(h, k)
    BY <1>1, <1>2
  <2> QED BY <2>1 DEF RowOf
<1>3. ASSUME NEW k \in DOMAIN calls', Owed(h, k)', \A j \in DOMAIN calls' : Owed(h, j)' => j = k
      PROVE  IF calls'[k].kind = "stop" THEN WorkerOf(h) = {}
             ELSE /\ WorkerOf(h) # {}
                  /\ \A w \in WorkerOf(h) : Follows("starting", w, seats'[h], feed'.frames, work')
  <2>1. /\ k \in DOMAIN calls /\ Owed(h, k) /\ calls'[k].kind = calls[k].kind
        /\ \A j \in DOMAIN calls : Owed(h, j) => j = k
    BY <1>1, <1>3
  <2> QED BY <2>1 DEF RowOf
<1> QED BY <1>2, <1>3 DEF RowOf

\* Calls as they were.
LEMMA CallsSame ==
    ASSUME UNCHANGED calls, NEW h
    PROVE  /\ \A k : Owed(h, k)' <=> Owed(h, k)
           /\ \A k \in DOMAIN calls : Owed(h, k) => calls'[k].kind = calls[k].kind
BY DEF Owed

LEMMA RowsKept ==
    ASSUME Rows, happened \subseteq happened', UNCHANGED <<fleet, pool>>,
           Calm(Stirs)' => UNCHANGED <<seats, feed, work>>,
           \A h \in Handles : /\ \A k : Owed(h, k)' <=> Owed(h, k)
                              /\ \A k \in DOMAIN calls : Owed(h, k) => calls'[k].kind = calls[k].kind
    PROVE  Rows'
<1> SUFFICES ASSUME Calm(Stirs)', NEW h \in Handles
             PROVE  RowOf(h)'
  BY DEF Rows
<1>1. RowOf(h) /\ UNCHANGED <<seats, feed, work>>
  BY CalmBefore DEF Rows
<1>2. WorkerOf(h)' = WorkerOf(h) /\ pool'[h] = pool[h]
  BY DEF WorkerOf
<1> QED BY <1>1, <1>2, RowKept

\* A seat whose eviction shows in no row.
LEMMA EvictIs ==
    ASSUME IInv, Shaped, Named, NEW ms \in SUBSET DOMAIN who, Evict(ms)
    PROVE  /\ seats' \in [Handles -> Holder]
           /\ \A h \in Handles : /\ seats'[h].proc = seats[h].proc /\ seats'[h].member = seats[h].member
                                 /\ seats'[h] # Nobody => seats[h] # Nobody
                                 /\ seats[h].member \notin ms => seats'[h] = seats[h]
<1>1. seats \in [Handles -> Holder] /\ 0 \notin ms
  BY TypesAre DEF Shaped, IInv
<1>2. seats' = [h \in Handles |-> IF seats[h].member \in ms
                                  THEN [seats[h] EXCEPT !.ending = TRUE] ELSE seats[h]]
  BY DEF Evict
<1>3. ASSUME NEW h \in Handles, seats[h] = Nobody
      PROVE  seats'[h] = seats[h]
  <2>1. seats[h].member = 0
    BY <1>3 DEF Nobody
  <2> QED BY <1>1, <1>2, <2>1
<1>4. \A h \in Handles : /\ seats'[h] \in Holder
                         /\ seats'[h].proc = seats[h].proc /\ seats'[h].member = seats[h].member
                         /\ seats[h].member \notin ms => seats'[h] = seats[h]
  BY <1>1, <1>2 DEF Holder
<1> QED BY <1>2, <1>3, <1>4

----------------------------------------------------------------------------
(* The roster.                                                             *)

LEMMA AdminIs ==
    ASSUME Shaped, NEW ms, Admin(ms)
    PROVE  /\ happened \subseteq happened' /\ acts' \in Nat
           /\ Calm(Stirs)' => \A m \in ms : m # 1 /\ ~who[m].worker
<1>1. happened \subseteq happened' /\ acts' = acts + 1
  BY DEF Admin, Spend, Upset, Note
<1>2. (\E m \in ms : who[m].worker \/ m = 1) => "admin" \in happened'
  BY DEF Admin, Upset, Note
<1>3. Calm(Stirs)' => "admin" \notin happened'
  BY DEF Calm, Stirs
<1> QED BY <1>1, <1>2, <1>3 DEF Shaped

LEMMA RosterFollows ==
    ASSUME IInv, SInv, Lasting, happened \subseteq happened', acts' \in Nat,
           UNCHANGED <<fleet, procs, work, up, pool, calls>>,
           feed' = feed \/ feed' = [open |-> FALSE, frames |-> feed.frames],
           seats' \in [Handles -> Holder],
           \A h \in Handles : /\ seats'[h].proc = seats[h].proc /\ seats'[h].member = seats[h].member
                              /\ seats'[h] # Nobody => seats[h] # Nobody,
           Calm(Stirs)' => UNCHANGED <<seats, feed>> /\ \A w \in fleet : w.member \in members => w.member \in members'
    PROVE  SInv'
<1>1. Shaped'
  <2>1. Shaped
    BY DEF SInv
  <2>2. [open |-> FALSE, frames |-> feed.frames] \in [open : BOOLEAN, frames : Seq(Told)]
    BY <2>1 DEF Shaped
  <2>3. feed' \in [open : BOOLEAN, frames : Seq(Told)]
    BY <2>1, <2>2 DEF Shaped
  <2> QED BY <2>1, <2>3 DEF Shaped
<1>2. Named'
  <2>1. feed'.frames = feed.frames
    BY DEF SInv, Shaped
  <2> QED BY <2>1, FramesLast, NamedLasts DEF SInv
<1>3. Undisturbed'
  BY CalmBefore DEF SInv, Undisturbed, Alive
<1>4. Rows'
  BY CallsSame, RowsKept DEF SInv
<1> QED BY <1>1, <1>2, <1>3, <1>4 DEF SInv

\* Somebody is cut off: in a calm room, no worker and not the window.
LEMMA CutFollows ==
    ASSUME IInv, SInv, Lasting, NEW m \in members, Admin({m}), Evict({m}), CutOff(m),
           UNCHANGED <<fleet, procs, work, up, pool, calls>>, members \ {m} \subseteq members'
    PROVE  SInv'
<1>1. Shaped /\ Named
  BY DEF SInv
<1>2. {m} \in SUBSET DOMAIN who
  BY DEF IInv, Typed
<1>3. /\ happened \subseteq happened' /\ acts' \in Nat
      /\ Calm(Stirs)' => m # 1 /\ ~who[m].worker
  BY <1>1, AdminIs
<1>4. /\ seats' \in [Handles -> Holder]
      /\ \A h \in Handles : /\ seats'[h].proc = seats[h].proc /\ seats'[h].member = seats[h].member
                            /\ seats'[h] # Nobody => seats[h] # Nobody
                            /\ seats[h].member # m => seats'[h] = seats[h]
  BY <1>1, <1>2, EvictIs
<1>5. feed' = feed \/ feed' = [open |-> FALSE, frames |-> feed.frames]
  BY DEF CutOff
<1>6. ASSUME Calm(Stirs)'
      PROVE  UNCHANGED <<seats, feed>> /\ \A w \in fleet : w.member \in members => w.member \in members'
  <2>1. m # 1 /\ ~who[m].worker
    BY <1>3, <1>6
  <2>2. feed' = feed
    BY <2>1 DEF CutOff
  <2>3. ASSUME NEW h \in Handles, seats[h].member = m
        PROVE  FALSE
    <3>1. seats[h] # Nobody
      BY <1>2, <2>3, TypesAre DEF Nobody, IInv
    <3>2. Worked(procs, h, m)
      BY <1>1, <2>3, <3>1, SeatIs
    <3> QED BY <2>1, <3>2 DEF Worked, IInv, Minted
  <2>4. seats' = seats
    BY <1>1, <1>4, <2>3 DEF Shaped
  <2>5. \A w \in fleet : w.member # m
    BY <2>1, WorkerIs
  <2> QED BY <2>2, <2>4, <2>5
<1> QED BY <1>3, <1>4, <1>5, <1>6, RosterFollows

LEMMA AdministerFollows ==
    ASSUME IInv, SInv, Administer
    PROVE  SInv'
<1>1. /\ Typed /\ Minted /\ Shaped /\ Named
      /\ \A h \in Handles : seats[h] \in Holder
      /\ seats \in [Handles -> Holder]
  BY DEF IInv, SInv, Shaped
<1>2. {1, Ana} \subseteq Nat /\ Owner \in Member
  BY FleetAssumption DEF Ana, Owner, Member
<1>3. \A ms : Admin(ms) => happened \subseteq happened' /\ acts' \in Nat
  BY <1>1, AdminIs
<1>4. ASSUME NEW x \in Member, AddMember(x), UNCHANGED procs, ~x.worker, x.kind # "agent" => x.handle = 0
      PROVE  Lasting /\ members \subseteq members'
  <2>1. /\ \A i \in DOMAIN who : i \in DOMAIN who' /\ who'[i] = who[i]
        /\ DOMAIN who' = DOMAIN who \cup {Len(who) + 1} /\ who'[Len(who) + 1] = x
        /\ members' = members \cup {Len(who) + 1}
    <3>1. /\ Len(who') = Len(who) + 1 /\ Len(who) \in Nat
          /\ DOMAIN who = 1..Len(who) /\ DOMAIN who' = 1..Len(who')
          /\ \A i \in DOMAIN who : i \in DOMAIN who' /\ who'[i] = who[i]
          /\ who'[Len(who) + 1] = x /\ members' = members \cup {Len(who) + 1}
      BY <1>1, <1>4, Added
    <3> QED BY <3>1
  <2> QED BY <1>1, <1>4, <2>1 DEF Lasting, Named, Minted
<1>5. ASSUME NEW m \in members, NEW x \in Member, who' = [who EXCEPT ![m] = x], UNCHANGED procs,
             x.kind = who[m].kind, x.handle = who[m].handle, x.worker = who[m].worker
      PROVE  Lasting
  <2>1. /\ DOMAIN who' = DOMAIN who
        /\ \A i \in DOMAIN who : /\ who'[i].kind = who[i].kind /\ who'[i].handle = who[i].handle
                                 /\ who'[i].worker = who[i].worker
    BY <1>1, <1>5 DEF Typed
  <2> QED BY <1>1, <1>5, <2>1 DEF Lasting, Named, Minted
<1>6. ASSUME NEW n \in {1, Ana}, NEW r \in {"owner", "member"}, Invite(n, r)
      PROVE  SInv'
  <2>1. DEFINE x == [Owner EXCEPT !.name = n, !.role = r]
  <2>2. x \in Member /\ ~x.worker /\ x.handle = 0
    BY <1>2 DEF Owner, Member
  <2>3. /\ AddMember(x) /\ UNCHANGED <<fleet, procs, work, up, pool, calls, feed, seats>> /\ Admin({})
    BY <1>6 DEF Invite
  <2> HIDE DEF x
  <2> QED BY <1>1, <1>3, <1>4, <2>2, <2>3, RosterFollows
<1>7. ASSUME NEW n \in {1, Ana}, NEW h \in {1, Ana}, InviteAgent(n, h)
      PROVE  SInv'
  <2>1. DEFINE x == [Owner EXCEPT !.name = n, !.kind = "agent", !.role = "member", !.handle = h]
  <2>2. x \in Member /\ ~x.worker /\ x.kind = "agent"
    BY <1>2 DEF Owner, Member
  <2>3. /\ AddMember(x) /\ UNCHANGED <<fleet, procs, work, up, pool, calls, feed, seats>> /\ Admin({})
    BY <1>7 DEF InviteAgent
  <2> HIDE DEF x
  <2> QED BY <1>1, <1>3, <1>4, <2>2, <2>3, RosterFollows
<1>8. ASSUME NEW m \in members, RemoveMember(m) \/ Ban(m)
      PROVE  SInv'
  <2>1. /\ Admin({m}) /\ Evict({m}) /\ CutOff(m) /\ members' = members \ {m}
        /\ UNCHANGED <<who, fleet, procs, work, up, pool, calls>>
    BY <1>8 DEF RemoveMember, Ban
  <2> QED BY <1>1, <2>1, LastsSame, CutFollows
<1>9. ASSUME NEW m \in members, Rotate(m)
      PROVE  SInv'
  <2>1. who[m] \in Member /\ m \in DOMAIN who
    BY <1>1 DEF Typed
  <2>2. DEFINE x == [who[m] EXCEPT !.token = @ + 1]
  <2>3. x \in Member /\ x.kind = who[m].kind /\ x.handle = who[m].handle /\ x.worker = who[m].worker
    BY <2>1 DEF Member
  <2>4. /\ who' = [who EXCEPT ![m] = x] /\ UNCHANGED <<members, fleet, procs, work, up, pool, calls>>
        /\ Admin({m}) /\ Evict({m}) /\ CutOff(m)
    BY <1>9, <2>1 DEF Rotate
  <2> HIDE DEF x
  <2>5. Lasting
    BY <1>5, <2>3, <2>4
  <2> QED BY <2>4, <2>5, CutFollows
<1>10. ASSUME NEW m \in members, NEW r \in {"owner", "member"}, Role(m, r)
       PROVE  SInv'
  <2>1. who[m] \in Member /\ m \in DOMAIN who
    BY <1>1 DEF Typed
  <2>2. DEFINE x == [who[m] EXCEPT !.role = r]
  <2>3. x \in Member /\ x.kind = who[m].kind /\ x.handle = who[m].handle /\ x.worker = who[m].worker
    BY <2>1 DEF Member
  <2>4. /\ who' = [who EXCEPT ![m] = x] /\ Admin({m})
        /\ UNCHANGED <<members, fleet, procs, work, up, pool, calls, seats, feed>>
    BY <1>10, <2>1 DEF Role
  <2> HIDE DEF x
  <2>5. Lasting
    BY <1>5, <2>3, <2>4
  <2> QED BY <1>1, <1>3, <2>4, <2>5, RosterFollows
<1>11. ASSUME NEW m \in members, NEW n \in {1, Ana}, Rename(m, n)
       PROVE  SInv'
  <2>1. who[m] \in Member /\ m \in DOMAIN who
    BY <1>1 DEF Typed
  <2>2. DEFINE x == [who[m] EXCEPT !.name = n]
  <2>3. x \in Member /\ x.kind = who[m].kind /\ x.handle = who[m].handle /\ x.worker = who[m].worker
    BY <1>2, <2>1 DEF Member
  <2>4. /\ who' = [who EXCEPT ![m] = x] /\ Admin({m})
        /\ UNCHANGED <<members, fleet, procs, work, up, pool, calls, seats, feed>>
    BY <1>11, <2>1 DEF Rename
  <2> HIDE DEF x
  <2>5. Lasting
    BY <1>5, <2>3, <2>4
  <2> QED BY <1>1, <1>3, <2>4, <2>5, RosterFollows
<1>12. ASSUME NEW n \in bans, Unban(n)
       PROVE  SInv'
  <2>1. /\ Admin({}) /\ UNCHANGED <<who, members, fleet, procs, work, up, pool, calls, seats, feed>>
    BY <1>12 DEF Unban
  <2> QED BY <1>1, <1>3, <2>1, LastsSame, RosterFollows
<1> QED BY <1>6, <1>7, <1>8, <1>9, <1>10, <1>11, <1>12 DEF Administer

----------------------------------------------------------------------------
(* The fleet.                                                              *)

\* A call is served.
LEMMA AnswerIs ==
    ASSUME Shaped, NEW c \in DOMAIN calls, calls[c].answer = "none", NEW a \in {"ok", "refused"},
           NEW h \in 0..MaxMembers, Answer(c, a, h)
    PROVE  /\ calls' \in Seq(Request) /\ DOMAIN calls' = DOMAIN calls
           /\ \A k \in DOMAIN calls : calls'[k].kind = calls[k].kind
           /\ \A g, k : k # c => (Owed(g, k)' <=> Owed(g, k))
           /\ \A g : ~Owed(g, c) /\ (Owed(g, c)' <=> a = "ok" /\ g = h)
<1>1. calls \in Seq(Request) /\ calls[c] \in Request
  BY DEF Shaped
<1>2. DEFINE new == [calls[c] EXCEPT !.answer = a, !.handle = h]
<1>3. calls' = [calls EXCEPT ![c] = new]
  BY <1>1 DEF Answer, Request
<1>4. new \in Request /\ new.kind = calls[c].kind /\ new.answer = a /\ new.handle = h
  BY <1>1 DEF Request
<1> HIDE DEF new
<1>5. /\ calls' \in Seq(Request) /\ DOMAIN calls' = DOMAIN calls /\ calls'[c] = new
      /\ \A k \in DOMAIN calls \ {c} : calls'[k] = calls[k]
  BY <1>1, <1>3, <1>4
<1> QED BY <1>4, <1>5 DEF Owed

\* A new worker has a member, a process and a handle that no frame, task or seat knows.
LEMMA SpawnIs ==
    ASSUME IInv, Named, SpawnWorker,
           NEW new, new = [handle |-> NextHandle, member |-> Len(who) + 1, proc |-> Len(procs) + 1,
                           state |-> "starting"]
    PROVE  /\ new.handle \in Handles /\ WorkerOf(new.handle) = {} /\ fleet' = fleet \cup {new}
           /\ new.member \notin DOMAIN who /\ new.member # 0 /\ new.member \in members'
           /\ members \subseteq members' /\ Alive(new.proc)' /\ new.proc \notin DOMAIN procs
           /\ \A p \in DOMAIN procs : procs'[p] = procs[p]
           /\ Lasting /\ UNCHANGED <<seats, work, up, feed>>
<1>. DEFINE h == NextHandle
            m == Len(who) + 1
            q == Len(procs) + 1
            seat == [name |-> h, kind |-> "agent", role |-> "member", handle |-> h,
                     worker |-> TRUE, token |-> 1]
            run  == [handle |-> h, member |-> m, state |-> "booting"]
<1>1. Typed /\ Minted
  BY DEF IInv
<1>2. /\ AddMember(seat) /\ procs' = Append(procs, run) /\ fleet' = fleet \cup {new}
      /\ UNCHANGED <<seats, work, up, feed>>
  BY DEF SpawnWorker
<1>3. h \in Handles \ TakenHandles
  BY FreeHandle DEF SpawnWorker
<1>4. h \in Nat /\ h \in Handles /\ WorkerOf(h) = {}
  BY <1>3, FleetAssumption DEF Handles, TakenHandles, WorkerOf
<1>. HIDE DEF h
<1>5. seat \in Member
  BY <1>4 DEF Member
<1>6. /\ DOMAIN who' = DOMAIN who \cup {m} /\ m \in Nat /\ m # 0 /\ m \notin DOMAIN who
      /\ \A i \in DOMAIN who : who'[i] = who[i]
      /\ who'[m] = seat /\ members' = members \cup {m}
  <2>1. /\ who' \in Seq(Member) /\ Len(who') = Len(who) + 1 /\ Len(who) \in Nat
        /\ DOMAIN who = 1..Len(who) /\ DOMAIN who' = 1..Len(who')
        /\ \A i \in DOMAIN who : i \in DOMAIN who' /\ who'[i] = who[i]
        /\ who'[Len(who) + 1] = seat /\ members' = members \cup {Len(who) + 1}
    BY <1>1, <1>2, <1>5, Added
  <2> QED BY <2>1
<1>7. run \in Process /\ procs \in Seq(Process)
  BY <1>1, <1>4, <1>6 DEF Process, Typed
<1>8. /\ DOMAIN procs' = DOMAIN procs \cup {q} /\ q \notin DOMAIN procs /\ procs'[q] = run
      /\ \A p \in DOMAIN procs : procs'[p] = procs[p]
  <2>1. /\ Len(procs') = q /\ procs'[q] = run /\ procs' \in Seq(Process)
        /\ \A p \in 1..Len(procs) : procs'[p] = procs[p]
    BY <1>2, <1>7, AppendProperties
  <2>2. Len(procs) \in Nat /\ DOMAIN procs = 1..Len(procs) /\ DOMAIN procs' = 1..Len(procs')
    BY <1>7, <2>1, LenProperties
  <2> QED BY <2>1, <2>2
<1>9. new.handle = h /\ new.member = m /\ new.proc = q
  BY DEF h
<1>. HIDE DEF m, q
<1>10. Lasting
  BY <1>1, <1>6, <1>8 DEF Lasting, Named, Minted
<1>12. Alive(new.proc)'
  BY <1>8, <1>9 DEF Alive
<1> QED BY <1>2, <1>4, <1>6, <1>8, <1>9, <1>10, <1>12

LEMMA SpawnNames ==
    ASSUME IInv, SInv, SpawnWorker, acts' \in Nat, calls' \in Seq(Request), UNCHANGED pool
    PROVE  Shaped' /\ Named'
<1>1. Named /\ Shaped
  BY DEF SInv
<1>2. Lasting /\ UNCHANGED <<seats, work, feed>>
  BY <1>1, SpawnIs
<1>3. Shaped'
  BY <1>1, <1>2 DEF Shaped
<1>4. Named'
  BY <1>1, <1>2, FramesLast, NamedLasts
<1> QED BY <1>3, <1>4

\* The pool's spawn is served.
LEMMA SpawnFollows ==
    ASSUME IInv, SInv, NEW c \in DOMAIN calls, calls[c].kind = "spawn", calls[c].answer = "none",
           up, SpawnWorker, Answer(c, "ok", NextHandle), UNCHANGED <<pool, acts, happened>>
    PROVE  SInv'
<1>0. PICK h : h = NextHandle
  OBVIOUS
<1>1. PICK new : new = [handle |-> h, member |-> Len(who) + 1, proc |-> Len(procs) + 1,
                        state |-> "starting"]
  OBVIOUS
<1>2. Named /\ Shaped /\ Undisturbed /\ Rows /\ Launched /\ Minted /\ Typed
  BY DEF SInv, IInv
<1>3. /\ new.handle \in Handles /\ WorkerOf(new.handle) = {} /\ fleet' = fleet \cup {new}
      /\ new.member \notin DOMAIN who /\ new.member # 0 /\ new.member \in members'
      /\ members \subseteq members' /\ Alive(new.proc)' /\ new.proc \notin DOMAIN procs
      /\ \A p \in DOMAIN procs : procs'[p] = procs[p]
      /\ Lasting /\ UNCHANGED <<seats, work, up, feed>>
  BY <1>0, <1>1, <1>2, SpawnIs
<1>4. new.handle = h /\ h \in 0..MaxMembers
  BY <1>1, <1>3, HandlesAre
<1>5. /\ calls' \in Seq(Request) /\ DOMAIN calls' = DOMAIN calls
      /\ \A k \in DOMAIN calls : calls'[k].kind = calls[k].kind
      /\ \A g, k : k # c => (Owed(g, k)' <=> Owed(g, k))
      /\ \A g : ~Owed(g, c) /\ (Owed(g, c)' <=> g = h)
  <2>1. Answer(c, "ok", h)
    BY <1>0
  <2> QED BY <1>2, <1>4, <2>1, AnswerIs
<1>6. Shaped' /\ Named'
  BY <1>2, <1>5, SpawnNames DEF Shaped
<1>7. Undisturbed'
  <2>1. \A w \in fleet : Alive(w.proc)' <=> Alive(w.proc)
    BY <1>2, <1>3 DEF Launched, Alive
  <2> QED BY <1>2, <1>3, <2>1 DEF Undisturbed, Calm
<1>8. ASSUME NEW g \in Handles, g # h, Calm(Stirs)
      PROVE  RowOf(g)'
  <2>1. WorkerOf(g)' = WorkerOf(g)
    BY <1>3, <1>4, <1>8 DEF WorkerOf
  <2>2. \A k : Owed(g, k)' <=> Owed(g, k)
    BY <1>5, <1>8
  <2> QED BY <1>2, <1>3, <1>5, <1>8, <2>1, <2>2, RowKept DEF Rows
<1>9. RowOf(h)'
  <2>0. \A w \in fleet' : w.handle = h <=> w = new
    BY <1>3, <1>4 DEF WorkerOf
  <2>1. WorkerOf(h)' = {new} /\ Owed(h, c)' /\ calls'[c].kind = "spawn" /\ c \in DOMAIN calls'
    BY <1>3, <1>5, <2>0 DEF WorkerOf
  <2>2. ASSUME NEW k \in DOMAIN calls', \A j \in DOMAIN calls' : Owed(h, j)' => j = k
        PROVE  k = c
    BY <2>1, <2>2
  <2>3. Follows("starting", new, seats'[h], feed'.frames, work')
    <3>1. seats[h].member # new.member
      BY <1>2, <1>3, <1>4, SeatIs DEF Nobody
    <3>2. \A i \in DOMAIN feed.frames : feed.frames[i].member # new.member
      BY <1>2, <1>3, WorkedIsMember DEF Named
    <3>3. \A d \in work : d.member # new.member
      BY <1>2, <1>3, WorkedIsMember DEF Named
    <3> QED BY <1>3, <3>1, <3>2, <3>3 DEF Follows, Busy
  <2> QED BY <2>1, <2>2, <2>3 DEF RowOf
<1>10. Rows'
  BY <1>8, <1>9 DEF Rows, Calm
<1> QED BY <1>6, <1>7, <1>10 DEF SInv

\* Workers go with their seats, and no other worker feels it.
LEMMA StopIs ==
    ASSUME IInv, Named, NEW ws \in SUBSET fleet, Stop(ws), UNCHANGED who
    PROVE  /\ Lasting /\ fleet' = fleet \ ws
           /\ \A w \in fleet' : /\ Alive(w.proc) => Alive(w.proc)'
                                /\ w.member \in members => w.member \in members'
                                /\ \A v \in ws : v.member # w.member /\ v.handle # w.handle
<1>. DEFINE hs == {w.handle : w \in ws}
            ms == {w.member : w \in ws}
<1>1. /\ Typed /\ Launched /\ Minted /\ \A p \in DOMAIN procs : procs[p] \in Process
  BY TypesAre DEF IInv
<1>2. /\ procs' = [p \in DOMAIN procs |->
                       IF procs[p].handle \in hs /\ sup[procs[p].handle] = p /\ Alive(p)
                       THEN [procs[p] EXCEPT !.state = "dying"] ELSE procs[p]]
      /\ fleet' = fleet \ ws /\ members' = members \ ms
  BY DEF Stop, WithoutSeats
<1>3. Renewed
  BY <1>1, <1>2 DEF Renewed, Process, Alive
<1>4. ASSUME NEW w \in fleet'
      PROVE  /\ Alive(w.proc) => Alive(w.proc)'
             /\ w.member \in members => w.member \in members'
             /\ \A v \in ws : v.member # w.member /\ v.handle # w.handle
  <2>1. w \in fleet /\ w \notin ws /\ w.proc \in DOMAIN procs /\ procs[w.proc].handle = w.handle
    BY <1>1, <1>2, <1>4 DEF Launched
  <2>2. \A v \in ws : v.handle # w.handle
    BY <1>1, <2>1 DEF Launched
  <2>3. \A v \in ws : v.member # w.member
    <3>1. \A v \in ws : v.proc \in DOMAIN procs /\ procs[v.proc].handle = v.handle /\ procs[v.proc].member = v.member
      BY <1>1 DEF Launched
    <3>2. procs[w.proc].member = w.member
      BY <1>1, <2>1 DEF Launched
    <3> QED BY <1>1, <2>1, <2>2, <3>1, <3>2 DEF Minted
  <2>4. procs'[w.proc] = procs[w.proc]
    BY <1>2, <2>1, <2>2
  <2> QED BY <1>2, <2>2, <2>3, <2>4 DEF Alive
<1> QED BY <1>2, <1>3, <1>4, LastsRenewed

LEMMA StopNames ==
    ASSUME IInv, SInv, NEW h, StopWorker(h), acts' \in Nat, calls' \in Seq(Request), UNCHANGED pool
    PROVE  Shaped' /\ Named'
<1>1. /\ Named /\ Shaped /\ WorkerOf(h) \in SUBSET fleet
      /\ {w.member : w \in WorkerOf(h)} \in SUBSET DOMAIN who
  BY WorkerIs DEF SInv, WorkerOf
<1>2. /\ Stop(WorkerOf(h)) /\ Evict({w.member : w \in WorkerOf(h)}) /\ UNCHANGED <<who, work, feed>>
  BY DEF StopWorker
<1>3. Lasting
  BY <1>1, <1>2, StopIs
<1>4. /\ seats' \in [Handles -> Holder]
      /\ \A g \in Handles : /\ seats'[g].proc = seats[g].proc /\ seats'[g].member = seats[g].member
                            /\ seats'[g] # Nobody => seats[g] # Nobody
  BY <1>1, <1>2, EvictIs
<1>5. Shaped'
  BY <1>1, <1>2, <1>4 DEF Shaped
<1>6. Named'
  BY <1>1, <1>2, <1>3, <1>4, FramesLast, NamedLasts
<1> QED BY <1>5, <1>6

\* The pool's stop is served.
LEMMA StopFollows ==
    ASSUME IInv, SInv, NEW c \in DOMAIN calls, calls[c].kind = "stop", calls[c].answer = "none",
           NEW h, h = calls[c].handle, StopWorker(h), Answer(c, "ok", h), UNCHANGED <<pool, acts, happened>>
    PROVE  SInv'
<1>1. Named /\ Shaped /\ Undisturbed /\ Rows /\ Launched /\ Minted /\ Typed
  BY DEF SInv, IInv
<1>2. /\ WorkerOf(h) \in SUBSET fleet /\ {w.member : w \in WorkerOf(h)} \in SUBSET DOMAIN who
      /\ \A w \in WorkerOf(h) : w.handle = h
  BY WorkerIs DEF WorkerOf
<1>3. /\ Stop(WorkerOf(h)) /\ Evict({w.member : w \in WorkerOf(h)}) /\ UNCHANGED <<who, work, feed, up>>
  BY DEF StopWorker
<1>4. /\ Lasting /\ fleet' = fleet \ WorkerOf(h)
      /\ \A w \in fleet' : /\ Alive(w.proc) => Alive(w.proc)'
                           /\ w.member \in members => w.member \in members'
  BY <1>1, <1>2, <1>3, StopIs
<1>5. \A g \in Handles : seats[g].member \notin {w.member : w \in WorkerOf(h)} => seats'[g] = seats[g]
  BY <1>1, <1>2, <1>3, EvictIs
<1>6. h \in 0..MaxMembers
  <2>1. calls[c] \in Request
    BY <1>1 DEF Shaped
  <2> QED BY <2>1 DEF Request
<1>7. /\ calls' \in Seq(Request) /\ DOMAIN calls' = DOMAIN calls
      /\ \A k \in DOMAIN calls : calls'[k].kind = calls[k].kind
      /\ \A g, k : k # c => (Owed(g, k)' <=> Owed(g, k))
      /\ \A g : ~Owed(g, c) /\ (Owed(g, c)' <=> g = h)
  BY <1>1, <1>6, AnswerIs
<1>8. Shaped' /\ Named'
  BY <1>1, <1>7, StopNames DEF Shaped
<1>9. Undisturbed'
  BY <1>1, <1>3, <1>4 DEF Undisturbed, Calm
<1>10. ASSUME NEW g \in Handles, g # h, Calm(Stirs)
       PROVE  RowOf(g)'
  <2>1. WorkerOf(g)' = WorkerOf(g)
    BY <1>4, <1>10 DEF WorkerOf
  <2>2. \A k : Owed(g, k)' <=> Owed(g, k)
    BY <1>7, <1>10
  <2>3. seats'[g] = seats[g]
    <3>1. ASSUME NEW w \in WorkerOf(h), w.member = seats[g].member
          PROVE  FALSE
      <4>1. w \in fleet /\ w.handle = h
        BY <1>2
      <4>2. seats[g] # Nobody
        BY <3>1, <4>1, WorkerIs DEF Nobody
      <4> QED BY <1>1, <1>10, <3>1, <4>1, <4>2, SeatIs
    <3> QED BY <1>5, <3>1
  <2> QED BY <1>1, <1>3, <1>7, <1>10, <2>1, <2>2, <2>3, RowKept DEF Rows
<1>11. RowOf(h)'
  <2>1. WorkerOf(h)' = {} /\ Owed(h, c)' /\ calls'[c].kind = "stop" /\ c \in DOMAIN calls'
    BY <1>4, <1>7 DEF WorkerOf
  <2>2. ASSUME NEW k \in DOMAIN calls', \A j \in DOMAIN calls' : Owed(h, j)' => j = k
        PROVE  k = c
    BY <2>1, <2>2
  <2> QED BY <2>1, <2>2 DEF RowOf
<1>12. Rows'
  BY <1>10, <1>11 DEF Rows, Calm
<1> QED BY <1>8, <1>9, <1>12 DEF SInv

\* What somebody else spawns or stops: the room is upset.
LEMMA ForeignFollows ==
    ASSUME IInv, SInv, Foreign
    PROVE  SInv'
<1>1. /\ acts' = acts + 1 /\ "foreign" \in happened' /\ UNCHANGED <<pool, calls>>
  BY DEF Foreign, Spend, Upset, Note
<1>2. acts' \in Nat /\ calls' \in Seq(Request)
  BY <1>1 DEF SInv, Shaped
<1>3. Shaped' /\ Named'
  BY <1>1, <1>2, SpawnNames, StopNames DEF Foreign
<1>4. ~Calm(Stirs)'
  BY <1>1 DEF Calm, Stirs
<1> QED BY <1>3, <1>4 DEF SInv, Undisturbed, Rows

----------------------------------------------------------------------------
(* The processes and their seats.                                          *)

LEMMA RowsCarried ==
    ASSUME Rows, happened \subseteq happened', UNCHANGED <<fleet, pool, calls>>,
           ASSUME Calm(Stirs), Calm(Stirs)', NEW h \in Handles, NEW w \in fleet, w.handle = h, NEW row,
                  Follows(row, w, seats[h], feed.frames, work)
           PROVE  Follows(row, w, seats'[h], feed'.frames, work')
    PROVE  Rows'
<1> SUFFICES ASSUME Calm(Stirs)', NEW h \in Handles
             PROVE  RowOf(h)'
  BY DEF Rows
<1>1. RowOf(h) /\ Calm(Stirs)
  BY CalmBefore DEF Rows
<1>2. WorkerOf(h)' = WorkerOf(h) /\ pool'[h] = pool[h]
  BY DEF WorkerOf
<1>3. \A w \in WorkerOf(h) : w \in fleet /\ w.handle = h
  BY DEF WorkerOf
<1>4. \A w \in WorkerOf(h) : \A row :
          Follows(row, w, seats[h], feed.frames, work) => Follows(row, w, seats'[h], feed'.frames, work')
  BY <1>1, <1>3
<1> QED BY <1>1, <1>2, <1>4, CallsSame, RowKept

\* A frame about somebody else's member.
LEMMA FollowsBesides ==
    ASSUME NEW row, NEW w, NEW seat, NEW list \in Seq(Told), NEW f \in Told, NEW tasks, NEW now,
           f.member # w.member, Busy(w, now) <=> Busy(w, tasks), Follows(row, w, seat, list, tasks)
    PROVE  Follows(row, w, seat, Append(list, f), now)
<1>1. Turns(row, w, Append(list, f), Busy(w, now)) <=> Turns(row, w, list, Busy(w, now))
  BY TurnsBesides
<1>2. Turns(row, w, list, Busy(w, now)) <=> Turns(row, w, list, Busy(w, tasks))
  BY DEF Turns
<1>3. (\A i \in DOMAIN list : list[i].member # w.member)
      => \A i \in DOMAIN Append(list, f) : Append(list, f)[i].member # w.member
  <2>1. /\ DOMAIN Append(list, f) = DOMAIN list \cup {Len(list) + 1}
        /\ Append(list, f)[Len(list) + 1] = f
        /\ \A i \in DOMAIN list : Append(list, f)[i] = list[i]
    BY AppendIs
  <2> QED BY <2>1
<1> QED BY <1>1, <1>2, <1>3 DEF Follows

LEMMA JoinsFollows ==
    ASSUME IInv, SInv, NEW p \in DOMAIN procs, Joins(p)
    PROVE  SInv'
<1>1. Named /\ Shaped /\ Undisturbed /\ Rows /\ Launched /\ Minted /\ Held
  BY DEF SInv, IInv
<1>2. /\ procs[p] \in Process /\ p \in Nat /\ p # 0 /\ \A q \in DOMAIN procs : procs[q] \in Process
  BY TypesAre DEF IInv
<1>3. PICK g, m : g = procs[p].handle /\ m = procs[p].member
  OBVIOUS
<1>4. g \in Handles /\ m \in Nat /\ Worked(procs, g, m) /\ m \in DOMAIN who /\ m # 0
  BY <1>1, <1>2, <1>3, WorkedIsMember DEF Process, Worked, IInv
<1>5. PICK f : f = Frame("seat-online", g, m)
  OBVIOUS
<1>6. f \in Told /\ f.handle = g /\ f.member = m /\ f.event = "seat-online"
  BY <1>4, <1>5 DEF Frame, Told
<1>7. /\ up /\ procs[p].state = "booting" /\ seats[g] = Nobody
      /\ procs' = [procs EXCEPT ![p].state = "joined"]
      /\ seats' = [seats EXCEPT ![g] = [member |-> m, proc |-> p, ending |-> FALSE]]
      /\ Heard(<<f>>)
      /\ UNCHANGED <<who, members, fleet, work, up, pool, calls, acts, happened>>
  BY <1>3, <1>5 DEF Joins
<1>8. Renewed /\ Lasting
  <2>1. Renewed
    BY <1>2, <1>7 DEF Renewed, Process
  <2> QED BY <1>1, <1>7, <2>1, LastsRenewed
<1>9. /\ seats' \in [Handles -> Holder] /\ seats'[g] = [member |-> m, proc |-> p, ending |-> FALSE]
      /\ \A h \in Handles \ {g} : seats'[h] = seats[h]
  <2>1. [member |-> m, proc |-> p, ending |-> FALSE] \in Holder
    BY <1>2, <1>4 DEF Holder
  <2> QED BY <1>1, <1>4, <1>7, <2>1 DEF Shaped
<1>10. Shaped'
  BY <1>1, <1>6, <1>7, <1>9, HeardIs DEF Shaped
<1>11. Named'
  <2>1. Worked(procs', g, m)
    BY <1>4, <1>8, WorkedLasts
  <2>2. \A i \in DOMAIN feed'.frames : Worked(procs', feed'.frames[i].handle, feed'.frames[i].member)
    BY <1>1, <1>6, <1>7, <1>8, <2>1, FramesHeard
  <2>3. \A d \in work' : Worked(procs', d.handle, d.member)
    BY <1>1, <1>7, <1>8, FramesLast
  <2>4. \A h \in Handles : seats'[h] # Nobody =>
            \/ seats'[h].proc = seats[h].proc /\ seats'[h].member = seats[h].member /\ seats[h] # Nobody
            \/ /\ seats'[h].proc \in DOMAIN procs'
               /\ procs'[seats'[h].proc].handle = h /\ procs'[seats'[h].proc].member = seats'[h].member
    BY <1>3, <1>8, <1>9 DEF Renewed
  <2> QED BY <1>1, <1>8, <2>2, <2>3, <2>4, NamedLasts
<1>12. Undisturbed'
  <2>1. \A q \in DOMAIN procs : Alive(q) => Alive(q)'
    BY <1>2, <1>7 DEF Alive, Process
  <2>2. feed'.open = feed.open
    BY <1>1, <1>6, <1>7, HeardIs
  <2> QED BY <1>1, <1>7, <2>1, <2>2 DEF Undisturbed, Calm, Launched
<1>13. ASSUME Calm(Stirs), NEW h \in Handles, NEW w \in fleet, w.handle = h, NEW row,
              Follows(row, w, seats[h], feed.frames, work)
       PROVE  Follows(row, w, seats'[h], feed'.frames, work')
  <2>1. feed'.frames = Append(feed.frames, f) /\ feed.frames \in Seq(Told)
    <3>1. feed.open
      BY <1>1, <1>13 DEF Undisturbed
    <3> QED BY <1>1, <1>6, <1>7, <3>1, HeardIs DEF Shaped
  <2>2. PICK v \in fleet : v.proc = p
    BY <1>1, <1>7, <1>13 DEF Held, Alive, InReach, Astray, Calm, Stirs
  <2>3. v.handle = g /\ v.member = m
    BY <1>1, <1>3, <2>2 DEF Launched
  <2>4. CASE w = v
    <3>1. h = g /\ w.member = m /\ w.proc = p
      BY <1>13, <2>2, <2>3, <2>4
    <3>2. /\ row = "starting" /\ ~Busy(w, work)
          /\ \A i \in DOMAIN feed.frames : feed.frames[i].member # w.member
      BY <1>4, <1>7, <1>13, <3>1 DEF Follows, Nobody
    <3>3. Turns("starting", w, Append(feed.frames, f), FALSE)
      BY <1>6, <2>1, <3>1, <3>2, TurnsOnline
    <3>4. ~Busy(w, work')
      BY <1>7, <3>2 DEF Busy
    <3>5. Turns("starting", w, feed'.frames, Busy(w, work'))
      BY <2>1, <3>3, <3>4 DEF Turns
    <3>6. seats'[h].member = w.member /\ seats'[h].proc = w.proc /\ ~seats'[h].ending
      BY <1>9, <3>1
    <3> QED BY <3>2, <3>5, <3>6 DEF Follows
  <2>5. CASE w # v
    <3>1. h # g
      BY <1>1, <1>13, <2>3, <2>5 DEF Launched
    <3>2. w.member # m
      BY <1>1, <1>4, <1>13, <3>1, TellsHandle
    <3>3. Busy(w, work') <=> Busy(w, work)
      BY <1>7
    <3> QED BY <1>6, <1>9, <1>13, <2>1, <3>1, <3>2, <3>3, FollowsBesides
  <2> QED BY <2>4, <2>5
<1>14. Rows'
  BY <1>1, <1>7, <1>13, RowsCarried
<1> QED BY <1>10, <1>11, <1>12, <1>14 DEF SInv

\* The close handler of a seat that ends: its work is the same member's.
LEMMA ClosesFollows ==
    ASSUME IInv, SInv, NEW g \in Handles, Closes(g)
    PROVE  SInv'
<1>. DEFINE after(d) == IF d.handle = g /\ d.stage = "out" THEN [d EXCEPT !.stage = "abandoned"] ELSE d
<1>1. Named /\ Shaped /\ Undisturbed /\ Rows /\ Launched /\ Minted
  BY DEF SInv, IInv
<1>2. \A q \in DOMAIN procs : procs[q] \in Process
  BY TypesAre DEF IInv
<1>3. /\ seats[g].ending /\ seats' = [seats EXCEPT ![g] = Nobody]
      /\ work' = {after(d) : d \in work}
      /\ procs' = [procs EXCEPT ![seats[g].proc].state = IF @ = "joined" THEN "booting" ELSE @]
      /\ UNCHANGED <<who, members, fleet, up, feed, pool, calls, acts, happened>>
  BY DEF Closes
<1>4. Renewed /\ Lasting
  <2>1. Renewed
    BY <1>2, <1>3 DEF Renewed, Process
  <2> QED BY <1>1, <1>3, <2>1, LastsRenewed
<1>5. \A d \in work : after(d) \in Task /\ after(d).member = d.member /\ after(d).handle = d.handle
  BY <1>1 DEF Shaped, Task
<1>. HIDE DEF after
<1>6. /\ seats' \in [Handles -> Holder] /\ seats'[g] = Nobody
      /\ \A h \in Handles \ {g} : seats'[h] = seats[h]
  <2>1. Nobody \in Holder
    BY DEF Nobody, Holder
  <2> QED BY <1>1, <1>3, <2>1 DEF Shaped
<1>7. Shaped'
  BY <1>1, <1>3, <1>5, <1>6 DEF Shaped
<1>8. Named'
  <2>0. \A d \in work : Worked(procs', d.handle, d.member)
    BY <1>1, <1>4, FramesLast
  <2>1. \A d \in work' : Worked(procs', d.handle, d.member)
    BY <1>3, <1>5, <2>0
  <2>2. \A i \in DOMAIN feed'.frames : Worked(procs', feed'.frames[i].handle, feed'.frames[i].member)
    BY <1>1, <1>3, <1>4, FramesLast
  <2> QED BY <1>1, <1>4, <1>6, <2>1, <2>2, NamedLasts
<1>9. Undisturbed'
  <2>1. \A q \in DOMAIN procs : Alive(q) => Alive(q)'
    BY <1>2, <1>3 DEF Alive, Process
  <2> QED BY <1>1, <1>3, <2>1 DEF Undisturbed, Calm, Launched
<1>10. ASSUME Calm(Stirs), NEW h \in Handles, NEW w \in fleet, w.handle = h, NEW row,
              Follows(row, w, seats[h], feed.frames, work)
       PROVE  Follows(row, w, seats'[h], feed'.frames, work')
  <2>1. Busy(w, work') <=> Busy(w, work)
    BY <1>3, <1>5 DEF Busy
  <2>2. CASE h = g
    <3>1. seats[h].member # w.member
      BY <1>3, <1>10, <2>2 DEF Follows
    <3>2. seats'[h].member # w.member
      BY <1>6, <1>10, <2>2, WorkerIs DEF Nobody
    <3> QED BY <1>3, <1>10, <2>1, <3>1, <3>2 DEF Follows
  <2>3. CASE h # g
    BY <1>3, <1>6, <1>10, <2>1, <2>3 DEF Follows, Turns
  <2> QED BY <2>2, <2>3
<1>11. Rows'
  BY <1>1, <1>3, <1>10, RowsCarried
<1> QED BY <1>7, <1>8, <1>9, <1>11 DEF SInv

\* A process ends: in a calm room, one that was stopped.
LEMMA EndsFollows ==
    ASSUME IInv, SInv, NEW p \in DOMAIN procs, Ends(p)
    PROVE  SInv'
<1>1. Named /\ Shaped /\ Undisturbed /\ Rows /\ Launched /\ Minted
  BY DEF SInv, IInv
<1>2. \A q \in DOMAIN procs : procs[q] \in Process /\ q # 0
  BY TypesAre DEF IInv
<1>3. /\ procs' = [procs EXCEPT ![p].state = "gone"] /\ fleet' = Exited(p)
      /\ seats' = [h \in Handles |-> IF seats[h].proc = p
                                     THEN [seats[h] EXCEPT !.ending = TRUE] ELSE seats[h]]
      /\ UNCHANGED <<who, members, work, up, feed, pool, calls, acts>>
      /\ happened \subseteq happened'
      /\ procs[p].state = "dying" \/ "exit" \in happened' \/ "crash" \in happened
  BY DEF Ends, Upset, Note, Stray, IInv, Held, InReach, Astray
<1>4. Renewed /\ Lasting
  <2>1. Renewed
    BY <1>2, <1>3 DEF Renewed, Process
  <2> QED BY <1>1, <1>3, <2>1, LastsRenewed
<1>5. /\ seats' \in [Handles -> Holder]
      /\ \A h \in Handles : /\ seats'[h].proc = seats[h].proc /\ seats'[h].member = seats[h].member
                            /\ seats[h].proc # p => seats'[h] = seats[h]
  BY <1>1, <1>3 DEF Shaped, Holder
<1>6. \A h \in Handles : seats'[h] # Nobody => seats[h] # Nobody
  <2>1. ASSUME NEW h \in Handles, seats[h] = Nobody
        PROVE  seats'[h] = Nobody
    <3>1. seats[h].proc = 0
      BY <2>1 DEF Nobody
    <3> QED BY <1>2, <1>5, <2>1, <3>1
  <2> QED BY <2>1
<1>7. Shaped'
  BY <1>1, <1>3, <1>5 DEF Shaped
<1>8. Named'
  BY <1>1, <1>3, <1>4, <1>5, <1>6, FramesLast, NamedLasts
<1>9. Calm(Stirs)' => /\ Calm(Stirs) /\ procs[p].state = "dying" /\ fleet' = fleet
                      /\ \A w \in fleet : w.proc # p
  <2>1. SUFFICES ASSUME Calm(Stirs)'
                 PROVE  /\ Calm(Stirs) /\ procs[p].state = "dying" /\ fleet' = fleet
                        /\ \A w \in fleet : w.proc # p
    OBVIOUS
  <2>2. Calm(Stirs) /\ procs[p].state = "dying"
    BY <1>3, <2>1, CalmBefore DEF Calm, Stirs
  <2>3. \A w \in fleet : w.proc # p
    BY <1>1, <2>2 DEF Undisturbed, Alive
  <2> QED BY <1>3, <2>2, <2>3 DEF Exited, Reported
<1>10. Undisturbed'
  <2>1. \A q \in DOMAIN procs \ {p} : Alive(q) => Alive(q)'
    BY <1>3 DEF Alive
  <2> QED BY <1>1, <1>3, <1>9, <2>1 DEF Undisturbed, Launched
<1>11. Rows'
  <2>1. SUFFICES ASSUME Calm(Stirs)'
                 PROVE  Rows'
    BY DEF Rows
  <2>2. ASSUME NEW h \in Handles, NEW w \in fleet, w.handle = h, NEW row,
               Follows(row, w, seats[h], feed.frames, work)
        PROVE  Follows(row, w, seats'[h], feed'.frames, work')
    <3>1. w.proc # p
      BY <1>9, <2>1
    <3>2. CASE seats[h].member = w.member
      <4>1. seats[h].proc = w.proc
        BY <2>2, <3>2 DEF Follows
      <4> QED BY <1>3, <1>5, <2>2, <3>1, <4>1
    <3>3. CASE seats[h].member # w.member
      <4>1. seats'[h].member # w.member
        BY <1>5, <3>3
      <4> QED BY <1>3, <2>2, <3>3, <4>1 DEF Follows
    <3> QED BY <3>2, <3>3
  <2> QED BY <1>1, <1>3, <1>9, <2>1, <2>2, RowsCarried
<1> QED BY <1>7, <1>8, <1>10, <1>11 DEF SInv

----------------------------------------------------------------------------
(* The delegations.                                                        *)

\* What leaves the room's people and processes alone, and tells one frame of its work.
LEMMA WorkFollows ==
    ASSUME IInv, SInv, UNCHANGED <<who, members, fleet, procs, seats, up, pool, calls>>,
           happened \subseteq happened', acts' \in Nat,
           NEW f \in Told, Heard(<<f>>), Worked(procs, f.handle, f.member), work' \subseteq Task,
           \A d \in work' : Worked(procs, d.handle, d.member),
           ASSUME Calm(Stirs), Calm(Stirs)', NEW w \in fleet, w.member # f.member
           PROVE  Busy(w, work') <=> Busy(w, work),
           ASSUME Calm(Stirs), Calm(Stirs)', NEW w \in fleet, w.member = f.member, NEW row,
                  Follows(row, w, seats[w.handle], feed.frames, work)
           PROVE  Follows(row, w, seats[w.handle], Append(feed.frames, f), work')
    PROVE  SInv'
<1>1. Named /\ Shaped /\ Undisturbed /\ Rows /\ Lasting
  BY LastsSame DEF SInv
<1>2. Shaped'
  BY <1>1, HeardIs DEF Shaped
<1>3. Named'
  <2>1. Worked(procs', f.handle, f.member)
    OBVIOUS
  <2>2. \A i \in DOMAIN feed'.frames : Worked(procs', feed'.frames[i].handle, feed'.frames[i].member)
    BY <1>1, <2>1, FramesHeard
  <2> QED BY <1>1, <2>2, NamedLasts
<1>4. Undisturbed'
  <2>1. feed'.open = feed.open
    BY <1>1, HeardIs
  <2> QED BY <1>1, <2>1, CalmBefore DEF Undisturbed, Alive
<1>5. ASSUME Calm(Stirs), Calm(Stirs)', NEW h \in Handles, NEW w \in fleet, w.handle = h, NEW row,
             Follows(row, w, seats[h], feed.frames, work)
      PROVE  Follows(row, w, seats'[h], feed'.frames, work')
  <2>1. feed'.frames = Append(feed.frames, f) /\ feed.frames \in Seq(Told)
    <3>1. feed.open
      BY <1>1, <1>5 DEF Undisturbed
    <3> QED BY <1>1, <3>1, HeardIs DEF Shaped
  <2>2. CASE w.member = f.member
    BY <1>5, <2>1, <2>2
  <2>3. CASE w.member # f.member
    <3>1. Busy(w, work') <=> Busy(w, work)
      BY <1>5, <2>3
    <3>2. Follows(row, w, seats[h], Append(feed.frames, f), work')
      BY <1>5, <2>1, <2>3, <3>1, FollowsBesides
    <3> QED BY <2>1, <3>2
  <2> QED BY <2>2, <2>3
<1>6. Rows'
  BY <1>1, <1>5, RowsCarried
<1> QED BY <1>2, <1>3, <1>4, <1>6 DEF SInv

LEMMA DelegateFollows ==
    ASSUME IInv, SInv, NEW g \in Handles, Delegate(g)
    PROVE  SInv'
<1>1. PICK m, f, d : /\ m = seats[g].member /\ f = Frame("sent", g, m)
                     /\ d = [id |-> acts, handle |-> g, member |-> m, stage |-> "out"]
  OBVIOUS
<1>2. /\ seats[g] # Nobody /\ acts' = acts + 1 /\ work' = work \cup {d} /\ Heard(<<f>>)
      /\ UNCHANGED <<who, members, fleet, procs, seats, up, pool, calls, happened>>
  BY <1>1 DEF Delegate, Spend
<1>3. Named /\ Shaped
  BY DEF SInv
<1>4. /\ Worked(procs, g, m) /\ m \in Nat /\ \A w \in fleet : w.member = m => w.handle = g
  BY <1>1, <1>2, <1>3, SeatIs DEF Holder
<1>5. f \in Told /\ f.handle = g /\ f.member = m /\ f.event = "sent" /\ Tells(f)
  BY <1>1, <1>4 DEF Frame, Told, Tells
<1>6. d \in Task /\ d.handle = g /\ d.member = m
  BY <1>1, <1>3, <1>4 DEF Task, Shaped
<1>7. work' \subseteq Task /\ acts' \in Nat
  BY <1>2, <1>3, <1>6 DEF Shaped
<1>8. \A e \in work' : Worked(procs, e.handle, e.member)
  BY <1>2, <1>3, <1>4, <1>6 DEF Named
<1>9. \A w \in fleet : w.member # m => (Busy(w, work') <=> Busy(w, work))
  BY <1>2, <1>6 DEF Busy
<1>10. ASSUME NEW w \in fleet, w.member = f.member, NEW row,
              Follows(row, w, seats[w.handle], feed.frames, work)
       PROVE  Follows(row, w, seats[w.handle], Append(feed.frames, f), work')
  <2>1. w.handle = g /\ seats[w.handle].member = w.member
    BY <1>1, <1>4, <1>5, <1>10
  <2>2. Busy(w, work') /\ Busy(w, work') \in BOOLEAN
    BY <1>2, <1>5, <1>6, <1>10 DEF Busy
  <2>3. Turns(row, w, feed.frames, Busy(w, work)) /\ feed.frames \in Seq(Told)
    BY <1>3, <1>10, <2>1 DEF Follows, Shaped
  <2>4. Turns(row, w, Append(feed.frames, f), Busy(w, work'))
    BY <1>5, <1>10, <2>2, <2>3, TurnsTold
  <2> QED BY <1>10, <2>1, <2>4 DEF Follows
<1> QED BY <1>2, <1>4, <1>5, <1>7, <1>8, <1>9, <1>10, WorkFollows

LEMMA ReplyFollows ==
    ASSUME IInv, SInv, NEW d \in work, Reply(d)
    PROVE  SInv'
<1>1. PICK f, e : f = Frame("activity", d.handle, d.member) /\ e = [d EXCEPT !.stage = "done"]
  OBVIOUS
<1>2. /\ seats[d.handle].member = d.member /\ work' = (work \ {d}) \cup {e} /\ Heard(<<f>>)
      /\ UNCHANGED <<who, members, fleet, procs, seats, up, pool, calls, acts, happened>>
  BY <1>1 DEF Reply
<1>3. Named /\ Shaped /\ d \in Task /\ Worked(procs, d.handle, d.member) /\ acts \in Nat /\ Launched /\ Minted
  BY DEF SInv, Shaped, Named, IInv
<1>4. f \in Told /\ f.handle = d.handle /\ f.member = d.member /\ f.event = "activity"
  BY <1>1, <1>3 DEF Frame, Told, Task
<1>5. e \in Task /\ e.handle = d.handle /\ e.member = d.member
  BY <1>1, <1>3 DEF Task
<1>6. work' \subseteq Task /\ \A c \in work' : Worked(procs, c.handle, c.member)
  BY <1>2, <1>3, <1>5 DEF Shaped, Named
<1>7. \A w \in fleet : Busy(w, work') <=> Busy(w, work)
  BY <1>2, <1>5 DEF Busy
<1>8. ASSUME NEW w \in fleet, w.member = f.member, NEW row,
             Follows(row, w, seats[w.handle], feed.frames, work)
      PROVE  Follows(row, w, seats[w.handle], Append(feed.frames, f), work')
  <2>1. w.handle = d.handle
    BY <1>3, <1>4, <1>8, TellsHandle
  <2>2. seats[w.handle].member = w.member
    BY <1>2, <1>4, <1>8, <2>1
  <2>3. Turns(row, w, feed.frames, Busy(w, work')) /\ feed.frames \in Seq(Told)
    BY <1>3, <1>7, <1>8, <2>2 DEF Follows, Shaped, Turns
  <2>4. Turns(row, w, Append(feed.frames, f), Busy(w, work'))
    BY <1>4, <2>3, TurnsReplied
  <2> QED BY <1>8, <2>2, <2>4 DEF Follows
<1>9. Worked(procs, f.handle, f.member) /\ acts' \in Nat
  BY <1>2, <1>3, <1>4
<1> QED BY <1>2, <1>4, <1>6, <1>7, <1>8, <1>9, WorkFollows

\* The end of work is told: in a calm room, of the last there is.
LEMMA VerifiedFollows ==
    ASSUME IInv, SInv, NEW d \in work, Verified(d)
    PROVE  SInv'
<1>1. PICK f : f = Frame(d.stage, d.handle, d.member)
  OBVIOUS
<1>2. /\ d.stage # "out" /\ work' = work \ {d} /\ Heard(<<f>>)
      /\ (\E e \in work' : e.member = d.member) => "late" \in happened'
      /\ happened \subseteq happened'
      /\ UNCHANGED <<who, members, fleet, procs, seats, up, pool, calls, acts>>
  BY <1>1 DEF Verified, Note
<1>3. Named /\ Shaped /\ d \in Task /\ Worked(procs, d.handle, d.member) /\ acts \in Nat /\ Launched /\ Minted
  BY DEF SInv, Shaped, Named, IInv
<1>4. f \in Told /\ f.handle = d.handle /\ f.member = d.member /\ f.event # "sent" /\ Tells(f)
  BY <1>1, <1>2, <1>3 DEF Frame, Told, Task, Tells
<1>5. work' \subseteq Task /\ \A c \in work' : Worked(procs, c.handle, c.member)
  BY <1>2, <1>3 DEF Shaped, Named
<1>6. \A w \in fleet : w.member # f.member => (Busy(w, work') <=> Busy(w, work))
  BY <1>2, <1>4 DEF Busy
<1>7. ASSUME Calm(Stirs)', NEW w \in fleet, w.member = f.member, NEW row,
             Follows(row, w, seats[w.handle], feed.frames, work)
      PROVE  Follows(row, w, seats[w.handle], Append(feed.frames, f), work')
  <2>1. Busy(w, work)
    BY <1>4, <1>7 DEF Busy
  <2>2. ~Busy(w, work')
    <3>1. "late" \notin happened'
      BY <1>7 DEF Calm, Stirs
    <3> QED BY <1>2, <1>4, <1>7, <3>1 DEF Busy
  <2>3. /\ seats[w.handle].member = w.member
        /\ Turns(row, w, feed.frames, Busy(w, work)) /\ feed.frames \in Seq(Told)
    BY <1>3, <1>7, <2>1 DEF Follows, Shaped
  <2>4. Turns(row, w, Append(feed.frames, f), FALSE)
    BY <1>4, <1>7, <2>3, TurnsTold
  <2>5. Turns(row, w, Append(feed.frames, f), Busy(w, work'))
    BY <2>2, <2>4 DEF Turns
  <2> QED BY <1>7, <2>3, <2>5 DEF Follows
<1>8. Worked(procs, f.handle, f.member) /\ acts' \in Nat
  BY <1>2, <1>3, <1>4
<1> QED BY <1>2, <1>4, <1>5, <1>6, <1>7, <1>8, WorkFollows

----------------------------------------------------------------------------
(* The room goes and comes, and the feed.                                  *)

LEMMA RoomFollows ==
    ASSUME IInv, SInv, RoomStops \/ RoomCrashes \/ RoomBoots
    PROVE  SInv'
<1>1. Named /\ Shaped /\ Undisturbed /\ Rows /\ Typed
  BY DEF SInv, IInv
<1>2. CASE RoomStops \/ RoomCrashes
  <2>1. /\ {"rebind", "crash"} \cap happened' # {}
        /\ seats' = [h \in Handles |-> Nobody] /\ work' = {}
        /\ feed' = [open |-> FALSE, frames |-> feed.frames] /\ UNCHANGED <<who, pool, calls, acts>>
    BY <1>2 DEF RoomStops, RoomCrashes, Down, Upset, Note
  <2>2. Lasting
    <3>1. CASE RoomStops
      BY <1>1, <2>1, <3>1, StopIs DEF RoomStops
    <3>2. CASE RoomCrashes
      <4>1. Renewed
        BY <1>1, <3>2, TypesAre DEF RoomCrashes, Renewed, Process
      <4> QED BY <1>1, <2>1, <4>1, LastsRenewed
    <3> QED BY <1>2, <3>1, <3>2
  <2>3. Shaped'
    <3>1. Nobody \in Holder
      BY DEF Nobody, Holder
    <3>2. [open |-> FALSE, frames |-> feed.frames] \in [open : BOOLEAN, frames : Seq(Told)]
      BY <1>1 DEF Shaped
    <3> QED BY <1>1, <2>1, <3>1, <3>2 DEF Shaped
  <2>4. Named'
    BY <1>1, <2>1, <2>2, FramesLast, NamedLasts
  <2>5. ~Calm(Stirs)'
    BY <2>1 DEF Calm, Stirs
  <2> QED BY <2>3, <2>4, <2>5 DEF SInv, Undisturbed, Rows
<1>3. CASE RoomBoots
  <2>1. ~up /\ UNCHANGED <<who, procs, seats, work, feed, pool, calls, acts, happened>>
    BY <1>3 DEF RoomBoots
  <2>2. ~Calm(Stirs)'
    BY <1>1, <2>1 DEF Undisturbed, Calm
  <2>3. Shaped' /\ Named'
    BY <1>1, <2>1 DEF Shaped, Named
  <2> QED BY <2>2, <2>3 DEF SInv, Undisturbed, Rows
<1> QED BY <1>2, <1>3

LEMMA FeedFollows ==
    ASSUME IInv, SInv, FeedDrops \/ FeedOpens
    PROVE  SInv'
<1>1. Named /\ Shaped /\ Undisturbed
  BY DEF SInv
<1>2. UNCHANGED <<room, pool, calls, acts>>
  BY DEF FeedDrops, FeedOpens
<1>3. ~Calm(Stirs)'
  <2>1. CASE FeedDrops
    BY <2>1 DEF FeedDrops, Upset, Note, Calm, Stirs
  <2>2. CASE FeedOpens
    BY <1>1, <2>2 DEF FeedOpens, Undisturbed, Calm
  <2> QED BY <2>1, <2>2
<1>4. feed' \in [open : BOOLEAN, frames : Seq(Told)] /\ (feed'.frames = <<>> \/ feed'.frames = feed.frames)
  <2>1. feed \in [open : BOOLEAN, frames : Seq(Told)] /\ <<>> \in Seq(Told)
    BY <1>1 DEF Shaped
  <2>2. CASE feed' = [open |-> FALSE, frames |-> <<>>]
    BY <2>1, <2>2
  <2>3. CASE feed' = [feed EXCEPT !.open = TRUE]
    BY <2>1, <2>3
  <2> QED BY <2>2, <2>3 DEF FeedDrops, FeedOpens
<1>5. Shaped'
  BY <1>1, <1>2, <1>4 DEF Shaped, room
<1>6. Named'
  BY <1>1, <1>2, <1>4 DEF Named, room
<1> QED BY <1>3, <1>5, <1>6 DEF SInv, Undisturbed, Rows

----------------------------------------------------------------------------
(* The pool's calls.                                                       *)

\* A call is made, or is refused: nothing is owed for it.
LEMMA CallsFollow ==
    ASSUME IInv, SInv, UNCHANGED <<who, members, fleet, procs, seats, work, up, feed, pool>>,
           happened \subseteq happened', acts' \in Nat, calls' \in Seq(Request),
           \A h \in Handles : /\ \A k : Owed(h, k)' <=> Owed(h, k)
                              /\ \A k \in DOMAIN calls : Owed(h, k) => calls'[k].kind = calls[k].kind
    PROVE  SInv'
<1>1. Shaped'
  BY DEF SInv, Shaped
<1>2. Named'
  BY DEF SInv, Named
<1>3. Undisturbed'
  BY CalmBefore DEF SInv, Undisturbed, Alive
<1>4. Rows'
  BY RowsKept DEF SInv
<1> QED BY <1>1, <1>2, <1>3, <1>4 DEF SInv

LEMMA CallFollows ==
    ASSUME IInv, SInv, NEW kind \in {"spawn", "stop"}, NEW h \in 0..MaxMembers, Call(kind, h),
           UNCHANGED <<room, feed, pool, happened>>
    PROVE  SInv'
<1>1. PICK call : call = [kind |-> kind, handle |-> h, answer |-> "none"]
  OBVIOUS
<1>2. acts' = acts + 1 /\ calls' = Append(calls, call)
  BY <1>1 DEF Call, Spend
<1>3. calls \in Seq(Request) /\ call \in Request /\ acts' \in Nat
  BY <1>1, <1>2 DEF SInv, Shaped, Request
<1>4. /\ calls' \in Seq(Request) /\ DOMAIN calls' = DOMAIN calls \cup {Len(calls) + 1}
      /\ calls'[Len(calls) + 1] = call
      /\ \A k \in DOMAIN calls : calls'[k] = calls[k] /\ k # Len(calls) + 1
  BY <1>2, <1>3, AppendIs
<1>5. \A g, k : Owed(g, k)' <=> Owed(g, k)
  BY <1>1, <1>4 DEF Owed
<1> QED BY <1>3, <1>4, <1>5, CallsFollow DEF room

LEMMA RefusedFollows ==
    ASSUME IInv, SInv, NEW c \in DOMAIN calls, calls[c].answer = "none", NEW h \in 0..MaxMembers,
           Answer(c, "refused", h), UNCHANGED <<room, feed, pool, acts>>, happened \subseteq happened'
    PROVE  SInv'
<1>1. Shaped
  BY DEF SInv
<1>2. /\ calls' \in Seq(Request) /\ DOMAIN calls' = DOMAIN calls
      /\ \A k \in DOMAIN calls : calls'[k].kind = calls[k].kind
      /\ \A g, k : k # c => (Owed(g, k)' <=> Owed(g, k))
      /\ \A g : ~Owed(g, c) /\ ~Owed(g, c)'
  BY <1>1, AnswerIs
<1>3. \A g, k : Owed(g, k)' <=> Owed(g, k)
  BY <1>2
<1>4. acts' \in Nat
  BY <1>1 DEF Shaped
<1> QED BY <1>2, <1>3, <1>4, CallsFollow DEF room

LEMMA ServesFollows ==
    ASSUME IInv, SInv, Serves
    PROVE  SInv'
<1>1. PICK c \in DOMAIN calls : ServeSpawn(c) \/ ServeStop(c)
  BY DEF Serves
<1>2. calls[c] \in Request /\ calls[c].handle \in 0..MaxMembers
  <2>1. calls[c] \in Request
    BY DEF SInv, Shaped
  <2> QED BY <2>1 DEF Request
<1>3. CASE ServeSpawn(c)
  <2>1. CASE Entitled /\ SpawnWorker /\ Answer(c, "ok", NextHandle) /\ UNCHANGED happened
    BY <1>3, <2>1, SpawnFollows DEF ServeSpawn, Entitled, Known
  <2>2. CASE Answer(c, "refused", 0) /\ UNCHANGED <<room, feed>> /\ happened \subseteq happened'
    <3>1. 0 \in 0..MaxMembers
      BY FleetAssumption
    <3> QED BY <1>3, <2>2, <3>1, RefusedFollows DEF ServeSpawn
  <2> QED BY <1>3, <2>1, <2>2 DEF ServeSpawn, Upset, Note
<1>4. CASE ServeStop(c)
  <2>1. CASE StopWorker(calls[c].handle) /\ Answer(c, "ok", calls[c].handle)
    BY <1>4, <2>1, StopFollows DEF ServeStop
  <2>2. CASE Answer(c, "refused", calls[c].handle) /\ UNCHANGED <<room, feed>>
    BY <1>2, <1>4, <2>2, RefusedFollows DEF ServeStop
  <2> QED BY <1>4, <2>1, <2>2 DEF ServeStop
<1> QED BY <1>1, <1>3, <1>4

\* Taking one out of a sequence moves those behind it up.
LEMMA RemoveAtIs ==
    ASSUME NEW S, NEW s \in Seq(S), NEW c \in DOMAIN s
    PROVE  /\ RemoveAt(s, c) \in Seq(S) /\ DOMAIN RemoveAt(s, c) = 1..(Len(s) - 1)
           /\ \A i \in 1..(Len(s) - 1) : RemoveAt(s, c)[i] = s[IF i < c THEN i ELSE i + 1]
<1>. DEFINE a == SubSeq(s, 1, c - 1)
            b == SubSeq(s, c + 1, Len(s))
<1>1. Len(s) \in Nat /\ c \in 1..Len(s) /\ \A i \in 1..Len(s) : s[i] \in S
  OBVIOUS
<1>2. a \in Seq(S) /\ Len(a) = c - 1 /\ \A i \in 1..(c - 1) : a[i] = s[i]
  <2>1. 1 \in 1..(Len(s) + 1) /\ c - 1 \in 0..Len(s)
    BY <1>1
  <2> QED BY <1>1, <2>1, SubSeqProperties
<1>3. b \in Seq(S) /\ Len(b) = Len(s) - c /\ \A i \in 1..(Len(s) - c) : b[i] = s[c + i]
  <2>1. c + 1 \in 1..(Len(s) + 1) /\ Len(s) \in 0..Len(s)
    BY <1>1
  <2>2. \A i \in 1..(Len(s) - c) : (c + 1) + i - 1 = c + i
    BY <1>1
  <2> QED BY <1>1, <2>1, <2>2, SubSeqProperties
<1>4. RemoveAt(s, c) = a \o b
  BY DEF RemoveAt
<1>. HIDE DEF a, b
<1>5. /\ a \o b \in Seq(S) /\ Len(a \o b) = Len(s) - 1
      /\ \A i \in 1..(Len(s) - 1) : (a \o b)[i] = IF i <= Len(a) THEN a[i] ELSE b[i - Len(a)]
  <2>1. Len(a) + Len(b) = Len(s) - 1
    BY <1>1, <1>2, <1>3
  <2>2. /\ a \o b \in Seq(S) /\ Len(a \o b) = Len(a) + Len(b)
        /\ \A i \in 1..(Len(a) + Len(b)) : (a \o b)[i] = IF i <= Len(a) THEN a[i] ELSE b[i - Len(a)]
    BY <1>2, <1>3, ConcatProperties
  <2> QED BY <2>1, <2>2
<1>6. DOMAIN (a \o b) = 1..(Len(s) - 1)
  BY <1>5
<1>7. ASSUME NEW i \in 1..(Len(s) - 1)
      PROVE  (a \o b)[i] = s[IF i < c THEN i ELSE i + 1]
  <2>1. CASE i < c
    <3>1. i \in 1..(c - 1)
      BY <1>1, <2>1
    <3> QED BY <1>1, <1>2, <1>5, <2>1, <3>1
  <2>2. CASE ~(i < c)
    <3>1. i - (c - 1) \in 1..(Len(s) - c) /\ c + (i - (c - 1)) = i + 1 /\ ~(i <= c - 1)
      BY <1>1, <2>2
    <3> QED BY <1>1, <1>2, <1>3, <1>5, <2>2, <3>1
  <2> QED BY <2>1, <2>2
<1> QED BY <1>4, <1>5, <1>6, <1>7

\* An answer is taken: what else is owed stays owed, in a place of its own.
LEMMA TakenIs ==
    ASSUME Shaped, NEW c \in DOMAIN calls, calls' = RemoveAt(calls, c), NEW h
    PROVE  /\ calls' \in Seq(Request)
           /\ \A k \in DOMAIN calls : Owed(h, k) /\ k # c => \E i \in DOMAIN calls' : Owed(h, i)'
           /\ \A i \in DOMAIN calls' : Owed(h, i)' =>
                  \E k \in DOMAIN calls : /\ Owed(h, k) /\ k # c /\ calls[k].kind = calls'[i].kind
                                          /\ (\A j \in DOMAIN calls' : Owed(h, j)' => j = i) =>
                                                 \A j \in DOMAIN calls : Owed(h, j) => j = k \/ j = c
<1>1. /\ calls \in Seq(Request) /\ Len(calls) \in Nat /\ DOMAIN calls = 1..Len(calls)
  BY DEF Shaped
<1>. DEFINE at(i) == IF i < c THEN i ELSE i + 1
            to(k) == IF k < c THEN k ELSE k - 1
<1>2. /\ calls' \in Seq(Request) /\ DOMAIN calls' = 1..(Len(calls) - 1)
      /\ \A i \in DOMAIN calls' : calls'[i] = calls[at(i)]
  BY <1>1, RemoveAtIs
<1>3. \A i \in DOMAIN calls' : at(i) \in DOMAIN calls /\ at(i) # c
  BY <1>1, <1>2
<1>4. \A k \in DOMAIN calls : k # c => to(k) \in DOMAIN calls' /\ at(to(k)) = k
  BY <1>1, <1>2
<1>. HIDE DEF at, to
<1>5. \A i \in DOMAIN calls' : Owed(h, i)' <=> Owed(h, at(i))
  BY <1>2, <1>3 DEF Owed
<1>6. \A k \in DOMAIN calls : Owed(h, k) /\ k # c => to(k) \in DOMAIN calls' /\ Owed(h, to(k))'
  BY <1>4, <1>5
<1>7. ASSUME NEW i \in DOMAIN calls', Owed(h, i)'
      PROVE  \E k \in DOMAIN calls : /\ Owed(h, k) /\ k # c /\ calls[k].kind = calls'[i].kind
                                     /\ (\A j \in DOMAIN calls' : Owed(h, j)' => j = i) =>
                                            \A j \in DOMAIN calls : Owed(h, j) => j = k \/ j = c
  <2>1. Owed(h, at(i)) /\ at(i) # c /\ calls[at(i)].kind = calls'[i].kind /\ at(i) \in DOMAIN calls
    BY <1>2, <1>3, <1>5, <1>7
  <2>2. ASSUME \A j \in DOMAIN calls' : Owed(h, j)' => j = i, NEW j \in DOMAIN calls, Owed(h, j), j # c
        PROVE  j = at(i)
    BY <1>4, <1>6, <2>2
  <2> QED BY <2>1, <2>2
<1> QED BY <1>2, <1>6, <1>7

LEMMA AnsweredFollows ==
    ASSUME IInv, SInv, NEW c \in DOMAIN calls, Answered(c)
    PROVE  SInv'
<1>1. Named /\ Shaped /\ Undisturbed /\ Rows /\ calls[c] \in Request
  BY DEF SInv, Shaped
<1>2. PICK g, kind : g = calls[c].handle /\ kind = calls[c].kind
  OBVIOUS
<1>3. /\ calls' = RemoveAt(calls, c) /\ calls[c].answer # "none"
      /\ Crosses(c) => "late" \in happened'
      /\ happened \subseteq happened' /\ UNCHANGED <<room, feed, acts>>
  BY DEF Answered, Note
<1>4. kind \in {"spawn", "stop"} /\ calls[c].answer \in {"ok", "refused"}
  BY <1>1, <1>2, <1>3 DEF Request
<1>5. /\ calls[c].answer = "ok" => pool' = [pool EXCEPT ![g] = IF kind = "stop" THEN "none" ELSE "starting"]
      /\ calls[c].answer # "ok" => pool' = pool
  <2>1. CASE calls[c].answer = "ok" /\ kind = "spawn"
    BY <1>2, <2>1 DEF Answered
  <2>2. CASE calls[c].answer = "ok" /\ kind = "stop"
    BY <1>2, <2>2 DEF Answered
  <2>3. CASE calls[c].answer = "refused"
    BY <1>2, <1>4, <2>3 DEF Answered
  <2> QED BY <1>4, <2>1, <2>2, <2>3
<1>6. Shaped'
  <2>1. calls' \in Seq(Request)
    BY <1>1, <1>3, TakenIs
  <2>2. pool' \in [Handles -> Row]
    BY <1>1, <1>5 DEF Shaped, Row
  <2> QED BY <1>1, <1>3, <2>1, <2>2 DEF Shaped, room
<1>7. Named'
  BY <1>1, <1>3 DEF Named, room
<1>8. Undisturbed'
  BY <1>1, <1>3, CalmBefore DEF Undisturbed, Alive, room
<1>9. ASSUME Calm(Stirs)', NEW h \in Handles
      PROVE  RowOf(h)'
  <2>1. RowOf(h) /\ ~Crosses(c)
    BY <1>1, <1>3, <1>9, CalmBefore DEF Rows, Calm, Stirs
  <2>2. WorkerOf(h)' = WorkerOf(h) /\ UNCHANGED <<seats, feed, work>>
    BY <1>3 DEF room, WorkerOf
  <2>3. /\ \A k \in DOMAIN calls : Owed(h, k) /\ k # c => \E i \in DOMAIN calls' : Owed(h, i)'
        /\ \A i \in DOMAIN calls' : Owed(h, i)' =>
               \E k \in DOMAIN calls : /\ Owed(h, k) /\ k # c /\ calls[k].kind = calls'[i].kind
                                       /\ (\A j \in DOMAIN calls' : Owed(h, j)' => j = i) =>
                                              \A j \in DOMAIN calls : Owed(h, j) => j = k \/ j = c
    BY <1>1, <1>3, TakenIs
  <2>4. CASE Owed(h, c)
    <3>1. h = g /\ calls[c].answer = "ok"
      BY <1>2, <2>4 DEF Owed
    <3>2. \A k \in DOMAIN calls : Owed(h, k) => k = c
      BY <2>1, <2>4 DEF Owed, Crosses
    <3>3. \A i \in DOMAIN calls' : ~Owed(h, i)'
      BY <2>3, <3>2
    <3>4. pool'[h] = IF kind = "stop" THEN "none" ELSE "starting"
      BY <1>1, <1>5, <3>1 DEF Shaped
    <3>5. IF kind = "stop" THEN WorkerOf(h) = {}
          ELSE /\ WorkerOf(h) # {}
               /\ \A w \in WorkerOf(h) : Follows("starting", w, seats[h], feed.frames, work)
      BY <1>2, <2>1, <2>4, <3>2 DEF RowOf
    <3>6. /\ WorkerOf(h) = {} => pool'[h] = "none"
          /\ \A w \in WorkerOf(h) : Follows(pool'[h], w, seats[h], feed.frames, work)
      BY <3>4, <3>5
    <3> QED BY <2>2, <3>3, <3>6 DEF RowOf
  <2>5. CASE ~Owed(h, c)
    <3>1. pool'[h] = pool[h]
      BY <1>1, <1>2, <1>5, <1>9, <2>5 DEF Shaped, Owed
    <3>2. ASSUME \A i \in DOMAIN calls' : ~Owed(h, i)'
          PROVE  /\ WorkerOf(h) = {} => pool'[h] = "none"
                 /\ \A w \in WorkerOf(h) : Follows(pool'[h], w, seats[h], feed.frames, work)
      <4>1. \A k \in DOMAIN calls : ~Owed(h, k)
        BY <2>3, <2>5, <3>2
      <4> QED BY <2>1, <3>1, <4>1 DEF RowOf
    <3>3. ASSUME NEW i \in DOMAIN calls', Owed(h, i)', \A j \in DOMAIN calls' : Owed(h, j)' => j = i
          PROVE  IF calls'[i].kind = "stop" THEN WorkerOf(h) = {}
                 ELSE /\ WorkerOf(h) # {}
                      /\ \A w \in WorkerOf(h) : Follows("starting", w, seats[h], feed.frames, work)
      <4>1. PICK k \in DOMAIN calls : /\ Owed(h, k) /\ calls[k].kind = calls'[i].kind
                                      /\ \A j \in DOMAIN calls : Owed(h, j) => j = k \/ j = c
        BY <2>3, <3>3
      <4>2. \A j \in DOMAIN calls : Owed(h, j) => j = k
        BY <2>5, <4>1
      <4> QED BY <2>1, <4>1, <4>2 DEF RowOf
    <3> QED BY <2>2, <3>2, <3>3 DEF RowOf
  <2> QED BY <2>4, <2>5
<1>10. Rows'
  BY <1>9 DEF Rows
<1> QED BY <1>6, <1>7, <1>8, <1>10 DEF SInv

\* A frame about another worker is applied, or about nobody there is.
LEMMA FollowsPast ==
    ASSUME NEW row, NEW w, NEW seat, NEW list \in Seq(Told), list # <<>>, NEW tasks,
           Head(list).member # w.member, Follows(row, w, seat, list, tasks)
    PROVE  Follows(row, w, seat, Tail(list), tasks)
<1>1. Turns(row, w, list, Busy(w, tasks)) => Turns(row, w, Tail(list), Busy(w, tasks))
  BY TurnsPast
<1>2. \A i \in DOMAIN Tail(list) : Tail(list)[i] = list[i + 1] /\ i + 1 \in DOMAIN list
  BY TailIs
<1> QED BY <1>1, <1>2 DEF Follows

\* The pool applies a frame: about its worker, or about the handle of somebody who is none.
LEMMA AppliesFollows ==
    ASSUME IInv, SInv, ApplyRoomEvent
    PROVE  SInv'
<1>1. /\ Named /\ Shaped /\ Undisturbed /\ Rows
      /\ Launched /\ Minted /\ OneSeatPerAddress
      /\ feed \in [open : BOOLEAN, frames : Seq(Told)]
  BY DEF SInv, Shaped, IInv
<1>2. PICK f, g, list : f = Head(feed.frames) /\ g = f.handle /\ list = feed.frames
  OBVIOUS
<1>3. /\ list # <<>> /\ feed' = [feed EXCEPT !.frames = Tail(list)]
      /\ Untimely(f) /\ (\A m \in members : who[m].handle = g => who[m].worker) => "late" \in happened'
      /\ happened \subseteq happened'
      /\ pool' = [pool EXCEPT ![g] = IF @ = "none" THEN @ ELSE Applied(f.event, @)]
      /\ UNCHANGED <<room, calls, acts>>
  BY <1>2 DEF ApplyRoomEvent, Note
<1>4. /\ list \in Seq(Told) /\ f \in Told /\ Tail(list) \in Seq(Told) /\ 1 \in DOMAIN list /\ f = list[1]
      /\ \A i \in DOMAIN Tail(list) : Tail(list)[i] = list[i + 1] /\ i + 1 \in DOMAIN list
  BY <1>1, <1>2, <1>3, TailIs
<1>5. /\ g \in Handles /\ Worked(procs, g, f.member)
      /\ f.event \in {"seat-online", "activity", "sent", "done", "abandoned"}
  BY <1>1, <1>2, <1>4 DEF Told, Named
<1>6. /\ feed'.frames = Tail(list) /\ feed'.open = feed.open
      /\ feed' \in [open : BOOLEAN, frames : Seq(Told)]
  BY <1>1, <1>3, <1>4
<1>7. Shaped'
  <2>1. \A row \in Row : Applied(f.event, row) \in Row
    BY DEF Applied, Row
  <2>2. pool' \in [Handles -> Row]
    BY <1>1, <1>3, <2>1 DEF Shaped
  <2> QED BY <1>1, <1>3, <1>6, <2>2 DEF Shaped, room
<1>8. Named'
  <2>1. \A i \in DOMAIN list : Worked(procs, list[i].handle, list[i].member)
    BY <1>1, <1>2 DEF Named
  <2>2. \A i \in DOMAIN feed'.frames : Worked(procs, feed'.frames[i].handle, feed'.frames[i].member)
    BY <1>4, <1>6, <2>1
  <2> QED BY <1>1, <1>3, <2>2 DEF Named, room
<1>9. Undisturbed'
  BY <1>1, <1>3, <1>6, CalmBefore DEF Undisturbed, Alive, room
<1>10. ASSUME Calm(Stirs)', NEW h \in Handles
       PROVE  RowOf(h)'
  <2>1. RowOf(h) /\ Calm(Stirs)
    BY <1>1, <1>3, <1>10, CalmBefore DEF Rows
  <2>2. WorkerOf(h)' = WorkerOf(h) /\ UNCHANGED <<seats, work, calls>>
    BY <1>3 DEF room, WorkerOf
  <2>3. CASE h # g
    <3>1. pool'[h] = pool[h]
      BY <1>1, <1>3, <2>3 DEF Shaped
    <3>2. ASSUME NEW w \in WorkerOf(h)
          PROVE  w.member # f.member
      BY <1>1, <1>5, <2>3, <3>2, TellsHandle DEF WorkerOf
    <3>3. ASSUME NEW w \in WorkerOf(h), NEW row, Follows(row, w, seats[h], feed.frames, work)
          PROVE  Follows(row, w, seats'[h], feed'.frames, work')
      <4>1. Follows(row, w, seats[h], Tail(list), work)
        BY <1>2, <1>3, <1>4, <3>2, <3>3, FollowsPast
      <4> QED BY <1>6, <2>2, <4>1
    <3> QED BY <2>1, <2>2, <3>1, <3>3, CallsSame, RowKept
  <2>4. CASE h = g /\ ~Untimely(f)
    <3>1. PICK w \in fleet : w.member = f.member
      BY <2>4 DEF Untimely
    <3>2. w.handle = h /\ WorkerOf(h) = {w}
      <4>1. w.handle = h
        BY <1>1, <1>5, <2>4, <3>1, TellsHandle
      <4> QED BY <1>1, <4>1 DEF Launched, WorkerOf
    <3>3. \A k \in DOMAIN calls : Owed(h, k) => calls[k].kind = "stop"
      <4>1. ASSUME NEW k \in DOMAIN calls, Owed(h, k)
            PROVE  calls[k].kind = "stop"
        <5>1. calls[k] \in Request
          BY <1>1 DEF Shaped
        <5>2. calls[k].kind # "spawn"
          BY <1>2, <2>4, <4>1 DEF Untimely, Owed
        <5> QED BY <5>1, <5>2 DEF Request
      <4> QED BY <4>1
    <3>4. ASSUME \A k \in DOMAIN calls : ~Owed(h, k)
          PROVE  Follows(pool'[h], w, seats[h], Tail(list), work)
      <4>1. Follows(pool[h], w, seats[h], list, work)
        BY <1>2, <2>1, <3>2, <3>4 DEF RowOf
      <4>2. /\ pool[h] \in {"starting", "idle", "busy"}
            /\ seats[h].member = w.member /\ seats[h].proc = w.proc /\ ~seats[h].ending
            /\ Turns(pool[h], w, list, Busy(w, work)) /\ Busy(w, work) \in BOOLEAN
        BY <1>4, <3>1, <4>1 DEF Follows, Busy
      <4>3. pool'[h] = Applied(f.event, pool[h])
        BY <1>1, <1>3, <2>4, <4>2 DEF Shaped
      <4>4. /\ Applied(f.event, pool[h]) \in {"starting", "idle", "busy"}
            /\ Turns(Applied(f.event, pool[h]), w, Tail(list), Busy(w, work))
        BY <1>2, <1>3, <1>4, <3>1, <4>2, TurnsApplied
      <4> QED BY <4>2, <4>3, <4>4 DEF Follows
    <3>5. ASSUME NEW k \in DOMAIN calls, Owed(h, k), \A j \in DOMAIN calls : Owed(h, j) => j = k
          PROVE  FALSE
      BY <2>1, <3>2, <3>3, <3>5 DEF RowOf
    <3>6. \A k : Owed(h, k)' <=> Owed(h, k)
      BY <2>2 DEF Owed
    <3> QED BY <1>6, <2>2, <3>2, <3>4, <3>5, <3>6 DEF RowOf
  <2>5. CASE h = g /\ Untimely(f)
    <3>1. PICK m \in members : who[m].handle = h /\ ~who[m].worker
      BY <1>3, <1>10, <2>5 DEF Calm, Stirs
    <3>2. WorkerOf(h) = {}
      <4>1. SUFFICES ASSUME NEW w \in fleet, w.handle = h
                     PROVE  FALSE
        BY DEF WorkerOf
      <4>2. /\ w.member \in members /\ who[w.member].handle = h /\ who[w.member].kind = "agent"
            /\ who[w.member].worker
        BY <1>1, <2>1, <4>1, WorkerIs DEF Undisturbed, Named
      <4>3. who[m].kind = "agent"
        BY <1>1, <3>1, HandlesAre, TypesAre DEF Named, IInv
      <4> QED BY <1>1, <3>1, <4>2, <4>3 DEF OneSeatPerAddress, Agents
    <3>3. (\A k \in DOMAIN calls : ~Owed(h, k)) => pool'[h] = "none"
      BY <1>1, <1>3, <2>1, <2>5, <3>2 DEF RowOf, Shaped
    <3>4. ASSUME NEW k \in DOMAIN calls, Owed(h, k), \A j \in DOMAIN calls : Owed(h, j) => j = k
          PROVE  calls[k].kind = "stop"
      BY <2>1, <3>2, <3>4 DEF RowOf
    <3>5. \A k : Owed(h, k)' <=> Owed(h, k)
      BY <2>2 DEF Owed
    <3> QED BY <2>2, <3>2, <3>3, <3>4, <3>5 DEF RowOf
  <2> QED BY <2>3, <2>4, <2>5
<1>11. Rows'
  BY <1>10 DEF Rows
<1> QED BY <1>7, <1>8, <1>9, <1>11 DEF SInv

----------------------------------------------------------------------------
(* The specification, and the sidebar.                                     *)

LEMMA InitFollows ==
    ASSUME Init
    PROVE  SInv
<1>1. Shaped
  <2>1. Nobody \in Holder
    BY DEF Nobody, Holder
  <2> QED BY <2>1 DEF Init, Shaped, Row
<1>2. Named
  BY DEF Init, Named, Owner
<1>3. Undisturbed
  BY DEF Init, Undisturbed
<1>4. Rows
  BY DEF Init, Rows, RowOf, WorkerOf, Owed
<1> QED BY <1>1, <1>2, <1>3, <1>4 DEF SInv

LEMMA StepFollows ==
    ASSUME IInv, SInv, [Next]_vars
    PROVE  SInv'
<1>1. CASE RoomStep
  <2>1. ASSUME NEW h \in Handles, Closes(h) PROVE SInv'
    BY <2>1, ClosesFollows
  <2>2. ASSUME NEW d \in work, Reply(d) PROVE SInv'
    BY <2>2, ReplyFollows
  <2>3. ASSUME NEW d \in work, Verified(d) PROVE SInv'
    BY <2>3, VerifiedFollows
  <2> QED BY <1>1, <2>1, <2>2, <2>3, ServesFollows, RoomFollows DEF RoomStep
<1>2. CASE PoolStep
  <2>1. ASSUME NEW c \in DOMAIN calls, Answered(c) PROVE SInv'
    BY <2>1, AnsweredFollows
  <2> QED BY <1>2, <2>1, AppliesFollows, FeedFollows DEF PoolStep, Settles
<1>3. CASE ProcStep
  BY <1>3, JoinsFollows, EndsFollows DEF ProcStep
<1>4. ASSUME NEW h \in Handles, Delegate(h) \/ ClickStop(h)
      PROVE  SInv'
  <2>1. CASE ClickStop(h)
    <3>1. h \in 0..MaxMembers
      BY HandlesAre
    <3> QED BY <2>1, <3>1, CallFollows DEF ClickStop
  <2> QED BY <1>4, <2>1, DelegateFollows
<1>5. CASE ClickAdd \/ EnsureOne
  <2>1. 0 \in 0..MaxMembers
    BY FleetAssumption
  <2>2. CASE Call("spawn", 0) /\ UNCHANGED <<room, feed, pool, happened>>
    BY <2>1, <2>2, CallFollows
  <2>3. CASE UNCHANGED <<room, feed, pool, calls, acts>> /\ happened \subseteq happened'
    <3>1. calls' \in Seq(Request) /\ acts' \in Nat /\ \A g, k : Owed(g, k)' <=> Owed(g, k)
      BY <2>3 DEF SInv, Shaped, Owed
    <3> QED BY <2>3, <3>1, CallsFollow DEF room
  <2> QED BY <1>5, <2>2, <2>3 DEF ClickAdd, EnsureOne, Upset, Note
<1>6. CASE UNCHANGED vars
  <2>1. Shaped' /\ Named' /\ Undisturbed'
    BY <1>6 DEF vars, room, SInv, Shaped, Named, Undisturbed, Calm, Alive
  <2>2. Rows'
    BY <1>6, CallsSame, RowsKept DEF vars, room, SInv
  <2> QED BY <2>1, <2>2 DEF SInv
<1> QED BY <1>1, <1>2, <1>3, <1>4, <1>5, <1>6, AdministerFollows, ForeignFollows, RoomFollows,
           FeedFollows DEF Next

\* Through calls, frames and processes, each row is its worker's as soon as what is on
\* its way arrives: workers.js and workers.mjs.
THEOREM RowsFollow == Spec => []SInv
<1>1. Init => SInv
  BY InitFollows
<1>2. IInv /\ SInv /\ [Next]_vars => SInv'
  BY StepFollows
<1> QED BY <1>1, <1>2, FleetInductive, PTL DEF Spec

\* When every call is answered and every frame applied, the sidebar shows the fleet.
THEOREM SidebarAlwaysAgrees == Spec => []SidebarAgrees
<1>1. IInv /\ SInv => SidebarAgrees
  <2> SUFFICES ASSUME IInv, SInv, calls = <<>>, feed.frames = <<>>, Calm(Stirs), NEW h \in Handles
               PROVE  pool[h] = IF WorkerOf(h) = {} THEN "none"
                                ELSE IF \A w \in WorkerOf(h) : seats[h].member # w.member THEN "starting"
                                ELSE IF \E d \in work : \E w \in WorkerOf(h) : d.member = w.member
                                     THEN "busy" ELSE "idle"
    BY DEF SidebarAgrees, Stirs
  <2>1. /\ WorkerOf(h) = {} => pool[h] = "none"
        /\ \A w \in WorkerOf(h) : Follows(pool[h], w, seats[h], <<>>, work)
    BY DEF SInv, Rows, RowOf
  <2>2. ASSUME NEW w \in WorkerOf(h)
        PROVE  /\ WorkerOf(h) = {w}
               /\ pool[h] = IF seats[h].member # w.member THEN "starting"
                            ELSE IF \E d \in work : d.member = w.member THEN "busy" ELSE "idle"
    <3>1. WorkerOf(h) = {w}
      BY <2>2, RowIsOnes DEF IInv
    <3>2. Follows(pool[h], w, seats[h], <<>>, work)
      BY <2>1, <2>2
    <3> QED BY <3>1, <3>2 DEF Follows, Turns, Busy
  <2> QED BY <2>1, <2>2
<1> QED BY <1>1, FleetInductive, RowsFollow, PTL

=============================================================================
