---------------------------- MODULE ServerProofs -----------------------------
(***************************************************************************)
(* Proofs about two parts of the room server that share no state: what it   *)
(* keeps on disk (Store) and its observer (Observer).                       *)
(*                                                                         *)
(* Store, for any members and any upsets: what was last saved can always be *)
(* restored and is what a boot finds, every roster names an owner until a   *)
(* worker that is the only one is stopped, and bans outlive removals.       *)
(*                                                                         *)
(* Observer, for any configuration, any signals and any number of events:   *)
(* one cycle at a time, each on the latest brief and at the pace allowed;   *)
(* events, budget and notes are accounted for; nothing is left asleep.      *)
(***************************************************************************)
EXTENDS Store, Observer, FiniteSetTheorems, TLAPS

-----------------------------------------------------------------------------
(* The store. *)

\* A document holds what was last saved, or its backup does.
Kept(d) == \/ disk[d] = Whole(good[d])
           \/ /\ disk[d] = Absent
              /\ good[d] = Nobody \/ bak[d] = Whole(good[d])

\* A roster names an owner, but for the empty one a first boot starts with.
Staffed(roster) == roster.owners # {}

Roster == /\ phase \in {"prune", "up"} => Staffed(mem["members"])
          /\ mem["members"].all # {} => Staffed(mem["members"])
          /\ saving = "members" => Staffed(mem["members"])
          /\ saving = "bans" => Staffed(Less(mem["members"], banning))
          /\ good["members"] # Nobody => Staffed(good["members"])
          /\ \A f \in {disk["members"], bak["members"]} : f.st = "whole" => Staffed(f.val)

\* Owners are on the roster.
Listed == \A d \in Docs : /\ mem[d].owners \subseteq mem[d].all
                          /\ good[d].owners \subseteq good[d].all

\* The bans in memory and on disk hold every removal that has been saved, and
\* the one under way.
Banned == /\ removed \subseteq good["bans"].all
          /\ phase # "down" => removed \subseteq mem["bans"].all
          /\ banning \subseteq mem["bans"].all
          /\ saving = "members" => banning \subseteq good["bans"].all

Process == /\ phase \in {"down", "boot"} => saving = Idle
           /\ phase # "up" => banning = {}
           /\ phase = "boot" => mem["members"].all = {}

StoreInv ==
    /\ TypeOK
    /\ \A d \in Docs : Kept(d)
    /\ ~toppled => Roster
    /\ Listed
    /\ Process
    /\ ~over => Banned

\* Taking people off a list and putting one on or changing a role make lists.
LEMMA ListsChange ==
    ASSUME NEW v \in Lists
    PROVE  /\ v.all \subseteq Members /\ v.owners \subseteq Members
           /\ \A X : /\ Less(v, X) \in Lists
                     /\ Less(v, X).all = v.all \ X /\ Less(v, X).owners = v.owners \ X
           /\ \A m \in Members, role \in Roles :
                 /\ More(v, m, role) \in Lists
                 /\ More(v, m, role).all = v.all \cup {m}
                 /\ role = "owner" => More(v, m, role).owners = v.owners \cup {m}
                 /\ role # "owner" => More(v, m, role).owners = v.owners \ {m}
<1>1. v.all \subseteq Members /\ v.owners \subseteq Members
  BY DEF Lists
<1>2. ASSUME NEW X
      PROVE  /\ Less(v, X) \in Lists
             /\ Less(v, X).all = v.all \ X /\ Less(v, X).owners = v.owners \ X
  BY <1>1 DEF Less, Lists
<1>3. ASSUME NEW m \in Members, NEW role \in Roles
      PROVE  /\ More(v, m, role) \in Lists
             /\ More(v, m, role).all = v.all \cup {m}
             /\ role = "owner" => More(v, m, role).owners = v.owners \cup {m}
             /\ role # "owner" => More(v, m, role).owners = v.owners \ {m}
  BY <1>1 DEF More, Lists
<1>. QED BY <1>1, <1>2, <1>3

\* Nobody is a list, and no document is both absent and whole.
LEMMA Papers == /\ Nobody \in Lists /\ Nobody.all = {} /\ Nobody.owners = {}
                /\ Absent \in Files /\ Absent.st = "absent" /\ Absent.val = Nobody
                /\ \A v \in Lists : /\ Whole(v) \in Files
                                    /\ Whole(v).st = "whole" /\ Whole(v).val = v
                                    /\ Whole(v) # Absent
<1>1. Nobody \in Lists /\ Nobody.all = {} /\ Nobody.owners = {}
  BY DEF Nobody, Lists
<1>2. Absent \in Files /\ Absent.st = "absent" /\ Absent.val = Nobody
  BY <1>1 DEF Absent, Files
<1>3. ASSUME NEW v \in Lists
      PROVE  Whole(v) \in Files /\ Whole(v).st = "whole" /\ Whole(v).val = v
  BY DEF Whole, Files
<1>. QED BY <1>1, <1>2, <1>3

\* With more than one owner, one remains when one goes.
LEMMA OneRemains ==
    ASSUME StoreInv, ~toppled, phase \in {"prune", "up"}, NEW m, MayGo(m)
    PROVE  Staffed(Less(mem["members"], {m}))
<1>. DEFINE A == mem["members"].owners
<1>1. mem["members"] \in Lists /\ Staffed(mem["members"])
  BY DEF StoreInv, TypeOK, Roster, Docs
<1>2. A \subseteq Members /\ Less(mem["members"], {m}).owners = A \ {m}
  BY <1>1, ListsChange
<1>3. IsFiniteSet(A)
  <2>1. IsFiniteSet(Members)
    BY StoreAssumption, FS_Union DEF Members
  <2>. QED BY <1>2, <2>1, FS_Subset
<1>4. CASE m \notin A
  BY <1>1, <1>2, <1>4 DEF Staffed
<1>5. CASE m \in A
  <2>1. SUFFICES ASSUME A \ {m} = {} PROVE FALSE
    BY <1>2 DEF Staffed
  <2>2. A = {m}
    BY <1>5, <2>1
  <2>3. Cardinality({m}) = 1
    BY FS_Singleton
  <2>4. Cardinality(A) > 1
    BY <1>5 DEF MayGo
  <2>. QED BY <2>2, <2>3, <2>4
<1>. QED BY <1>4, <1>5

\* A change of the roster that leaves an owner keeps every part of the invariant.
LEMMA ChangeKeeps ==
    ASSUME StoreInv, saving = Idle, phase # "down",
           NEW roster \in Lists, roster.owners \subseteq roster.all,
           ~toppled' => Staffed(roster), Change("members", roster),
           phase' = phase \/ phase' = "prune", phase' # "boot",
           phase' = "prune" => phase # "up",
           toppled' \in BOOLEAN, toppled => toppled', fleet' \subseteq Workers,
           UNCHANGED <<files, banning, good, over, removed>>
    PROVE  StoreInv'
<1>. USE DEF Docs
<1>1. /\ mem' = [mem EXCEPT !["members"] = roster]
      /\ saving' = "members" /\ step' = "write" /\ banning' = {} /\ banning = {}
  BY DEF Change, StoreInv, TypeOK
<1>2. /\ mem' \in [Docs -> Lists]
      /\ mem'["members"] = roster /\ mem'["bans"] = mem["bans"]
  BY <1>1 DEF StoreInv, TypeOK
<1>3. TypeOK'
  BY <1>1, <1>2 DEF StoreInv, TypeOK, files
<1>4. \A d \in Docs : Kept(d)'
  BY DEF StoreInv, Kept, files
<1>5. ~toppled' => Roster'
  BY <1>1, <1>2 DEF StoreInv, Roster, files
<1>6. Listed' /\ Process'
  BY <1>1, <1>2 DEF StoreInv, Listed, Process
<1>7. ~over' => Banned'
  BY <1>1, <1>2 DEF StoreInv, Banned, files, Idle
<1>. QED BY <1>3, <1>4, <1>5, <1>6, <1>7 DEF StoreInv

\* The first state has nothing on disk and nobody to lose.
LEMMA StoreStarts == Init => StoreInv
<1>. SUFFICES ASSUME Init PROVE StoreInv
  OBVIOUS
<1>. USE Papers DEF Init, Docs
<1>1. TypeOK
  BY DEF TypeOK
<1>2. Roster
  BY DEF Roster, Idle
<1>3. \A d \in Docs : Kept(d)
  BY DEF Kept
<1>4. Listed /\ Process /\ Banned
  BY DEF Listed, Process, Banned
<1>. QED BY <1>1, <1>2, <1>3, <1>4 DEF StoreInv

\* The calls of a save before the last keep the invariant: the backup holds
\* what leaves the document.
LEMMA BackupKeeps ==
    ASSUME StoreInv, Write \/ Backup
    PROVE  StoreInv'
<1>. USE DEF Docs
<1>1. CASE Write
  <2>1. TypeOK'
    BY <1>1 DEF Write, StoreInv, TypeOK, files, hist
  <2>2. (\A d \in Docs : Kept(d)') /\ Listed' /\ Process'
    BY <1>1 DEF Write, StoreInv, Kept, Listed, Process, files, hist
  <2>3. ~toppled' => Roster'
    BY <1>1 DEF Write, StoreInv, Roster, files, hist
  <2>4. ~over' => Banned'
    BY <1>1 DEF Write, StoreInv, Banned, files, hist
  <2>. QED BY <2>1, <2>2, <2>3, <2>4 DEF StoreInv
<1>2. CASE /\ Backup /\ disk[saving] # Absent
           /\ bak' = [bak EXCEPT ![saving] = disk[saving]]
           /\ disk' = [disk EXCEPT ![saving] = Absent]
  <2>1. saving \in Docs
    BY <1>2 DEF Backup, StoreInv, TypeOK
  <2>2. disk[saving] = Whole(good[saving])
    BY <1>2, <2>1 DEF StoreInv, Kept
  <2>3. \A d \in Docs : /\ d = saving => disk'[d] = Absent /\ bak'[d] = disk[d]
                        /\ d # saving => disk'[d] = disk[d] /\ bak'[d] = bak[d]
    BY <1>2, <2>1 DEF StoreInv, TypeOK
  <2>4. TypeOK'
    BY <1>2, <2>1, Papers DEF Backup, StoreInv, TypeOK, hist
  <2>5. \A d \in Docs : Kept(d)'
    BY <1>2, <2>2, <2>3 DEF Backup, StoreInv, Kept, hist
  <2>6. ~toppled' => Roster'
    <3>. SUFFICES ASSUME ~toppled PROVE Roster'
      BY <1>2 DEF Backup, hist
    <3>1. Roster
      BY DEF StoreInv
    <3>2. /\ disk'["members"] \in {disk["members"], Absent}
          /\ bak'["members"] \in {disk["members"], bak["members"]}
      BY <2>3
    <3>3. \A f \in {disk'["members"], bak'["members"]} : f.st = "whole" => Staffed(f.val)
      BY <3>1, <3>2, Papers DEF Roster
    <3>4. UNCHANGED <<phase, mem, saving, banning, good>>
      BY <1>2 DEF Backup, hist
    <3>. QED BY <3>1, <3>3, <3>4 DEF Roster
  <2>7. Listed' /\ Process'
    BY <1>2 DEF Backup, StoreInv, Listed, Process, hist
  <2>8. ~over' => Banned'
    BY <1>2 DEF Backup, StoreInv, Banned, hist
  <2>. QED BY <2>4, <2>5, <2>6, <2>7, <2>8 DEF StoreInv
<1>3. CASE Backup /\ UNCHANGED <<disk, bak>>
  <2>1. TypeOK'
    BY <1>3 DEF Backup, StoreInv, TypeOK, hist
  <2>2. (\A d \in Docs : Kept(d)') /\ Listed' /\ Process'
    BY <1>3 DEF Backup, StoreInv, Kept, Listed, Process, hist
  <2>3. ~toppled' => Roster'
    BY <1>3 DEF Backup, StoreInv, Roster, hist
  <2>4. ~over' => Banned'
    BY <1>3 DEF Backup, StoreInv, Banned, hist
  <2>. QED BY <2>1, <2>2, <2>3, <2>4 DEF StoreInv
<1>. QED BY <1>1, <1>2, <1>3 DEF Backup

\* The swap is the moment a save counts; a ban's goes on to the roster.
LEMMA SwapKeeps ==
    ASSUME StoreInv, Swap
    PROVE  StoreInv'
<1>. USE DEF Docs
<1>1. saving \in Docs /\ saving # Idle /\ mem[saving] \in Lists /\ Whole(mem[saving]) \in Files
  BY Papers DEF Swap, StoreInv, TypeOK
<1>2. \A d \in Docs :
        /\ d = saving => disk'[d] = Whole(mem[d]) /\ good'[d] = mem[d]
        /\ d # saving => disk'[d] = disk[d] /\ good'[d] = good[d]
  BY <1>1 DEF Swap, StoreInv, TypeOK
<1>3. disk' \in [Docs -> Files] /\ good' \in [Docs -> Lists]
  BY <1>1 DEF Swap, StoreInv, TypeOK
<1>4. /\ bak' = bak /\ phase' = phase /\ fleet' = fleet /\ over' = over /\ toppled' = toppled
      /\ phase \notin {"down", "boot"}
  BY <1>1 DEF Swap, StoreInv, Process
<1>5. mem["members"] \in Lists /\ mem["bans"] \in Lists
  BY DEF StoreInv, TypeOK
<1>6. \A d \in Docs : Kept(d)'
  BY <1>2, <1>4 DEF StoreInv, Kept
<1>7. CASE /\ saving = "bans" /\ banning \cap mem["members"].all # {}
           /\ Change("members", Less(mem["members"], banning))
           /\ UNCHANGED <<banning, removed>>
  <2>1. /\ Less(mem["members"], banning) \in Lists
        /\ Less(mem["members"], banning).all = mem["members"].all \ banning
        /\ Less(mem["members"], banning).owners = mem["members"].owners \ banning
    BY <1>5, ListsChange
  <2>2. /\ mem'["members"] = Less(mem["members"], banning) /\ mem'["bans"] = mem["bans"]
        /\ mem' \in [Docs -> Lists]
        /\ saving' = "members" /\ step' = "write"
    BY <1>7, <2>1 DEF Change, StoreInv, TypeOK
  <2>3. TypeOK'
    BY <1>3, <1>4, <1>7, <2>2 DEF StoreInv, TypeOK, Idle
  <2>4. ~toppled' => Roster'
    <3>. SUFFICES ASSUME ~toppled PROVE Roster'
      BY <1>4
    <3>1. Roster /\ Staffed(Less(mem["members"], banning))
      BY <1>7 DEF StoreInv, Roster
    <3>2. disk'["members"] = disk["members"] /\ good'["members"] = good["members"]
      BY <1>2, <1>7
    <3>. QED BY <1>4, <2>2, <3>1, <3>2 DEF Roster
  <2>5. Listed'
    BY <1>2, <2>1, <2>2 DEF StoreInv, Listed
  <2>6. Process' /\ (~over' => Banned')
    BY <1>2, <1>4, <1>7, <2>2 DEF StoreInv, Process, Banned
  <2>. QED BY <1>6, <2>3, <2>4, <2>5, <2>6 DEF StoreInv
<1>8. CASE /\ saving = "bans" => banning \cap mem["members"].all = {}
           /\ saving' = Idle /\ step' = "write" /\ banning' = {}
           /\ removed' = removed \cup (IF saving = "members" THEN banning ELSE {})
           /\ UNCHANGED mem
  <2>1. TypeOK'
    BY <1>3, <1>4, <1>8 DEF StoreInv, TypeOK
  <2>2. ~toppled' => Roster'
    <3>. SUFFICES ASSUME ~toppled PROVE Roster'
      BY <1>4
    <3>1. Roster
      BY DEF StoreInv
    <3>2. saving = "members" => Staffed(mem["members"])
      BY <3>1 DEF Roster
    <3>3. /\ good'["members"] # Nobody => Staffed(good'["members"])
          /\ \A f \in {disk'["members"], bak'["members"]} : f.st = "whole" => Staffed(f.val)
      BY <1>2, <1>4, <1>5, <3>1, <3>2, Papers DEF Roster
    <3>. QED BY <1>4, <1>8, <3>1, <3>3 DEF Roster, Idle
  <2>3. Listed' /\ Process'
    BY <1>2, <1>4, <1>8 DEF StoreInv, Listed, Process
  <2>4. ~over' => Banned'
    BY <1>1, <1>2, <1>4, <1>8 DEF StoreInv, Banned, Idle
  <2>. QED BY <1>6, <2>1, <2>2, <2>3, <2>4 DEF StoreInv
<1>. QED BY <1>7, <1>8 DEF Swap

\* A memory that is gone.
LEMMA MemoryGone ==
    ASSUME StoreInv, phase' = "down", mem' = [d \in Docs |-> Nobody],
           saving' = Idle, step' = "write", banning' = {}, fleet' \subseteq Workers,
           UNCHANGED <<files, hist>>
    PROVE  StoreInv'
<1>. USE DEF Docs
<1>1. TypeOK' /\ \A d \in Docs : Kept(d)'
  BY Papers DEF StoreInv, TypeOK, Kept, files, hist
<1>2. ~toppled' => Roster'
  BY Papers DEF StoreInv, Roster, files, hist, Idle
<1>3. Listed' /\ Process'
  BY Papers DEF StoreInv, Listed, Process, hist
<1>4. ~over' => Banned'
  BY DEF StoreInv, Banned, hist, Idle
<1>. QED BY <1>1, <1>2, <1>3, <1>4 DEF StoreInv

\* A save that fails leaves the document, or, at the swap, its backup; a boot
\* that it ends leaves an empty memory, and so does a crash.
LEMMA FailureKeeps ==
    ASSUME StoreInv, SaveFails \/ Crash
    PROVE  StoreInv'
<1>. USE DEF Docs
<1>1. CASE SaveFails /\ phase = "up"
  <2>1. /\ phase' = "up" /\ mem' = mem /\ saving' = Idle /\ step' = "write" /\ banning' = {}
        /\ UNCHANGED <<files, fleet, hist>>
    BY <1>1 DEF SaveFails
  <2>2. TypeOK' /\ \A d \in Docs : Kept(d)'
    BY <2>1 DEF StoreInv, TypeOK, Kept, files, hist
  <2>3. ~toppled' => Roster'
    BY <1>1, <2>1 DEF StoreInv, Roster, files, hist, Idle
  <2>4. Listed' /\ Process' /\ (~over' => Banned')
    BY <1>1, <2>1 DEF StoreInv, Listed, Process, Banned, files, hist, Idle
  <2>. QED BY <2>2, <2>3, <2>4 DEF StoreInv
<1>2. CASE SaveFails /\ phase # "up"
  <2>1. fleet' \subseteq Workers
    BY <1>2 DEF SaveFails, StoreInv, TypeOK
  <2>. QED BY <1>2, <2>1, MemoryGone DEF SaveFails
<1>3. CASE Crash
  BY <1>3, MemoryGone DEF Crash
<1>. QED BY <1>1, <1>2, <1>3

\* A boot holds what the files hold: what was last saved, unless it is lost.
LEMMA LoadKeeps ==
    ASSUME StoreInv, Load
    PROVE  StoreInv' /\ \A d \in Docs : disk[d] # Absent => mem'[d] = good[d]
<1>. USE DEF Docs
<1>1. /\ mem' = [d \in Docs |-> disk[d].val]
      /\ phase' = IF disk["members"].val.all = {} THEN "boot" ELSE "prune"
      /\ saving = Idle /\ banning = {} /\ banning' = {} /\ saving' = Idle
  BY DEF Load, save, StoreInv, Process, TypeOK
<1>2. \A d \in Docs : disk[d] \in Files /\ disk[d].val \in Lists /\ good[d] \in Lists
  BY DEF StoreInv, TypeOK, Files
<1>3. \A d \in Docs : \/ disk[d] = Whole(good[d]) /\ mem'[d] = good[d]
                      \/ disk[d] = Absent /\ mem'[d] = Nobody
  BY <1>1, <1>2, Papers DEF StoreInv, Kept
<1>4. TypeOK'
  <2>1. over' \in BOOLEAN
    BY DEF Load, StoreInv, TypeOK
  <2>. QED BY <1>1, <1>2, <2>1 DEF Load, StoreInv, TypeOK, files, save
<1>5. (\A d \in Docs : Kept(d)') /\ Process'
  BY <1>1 DEF Load, StoreInv, Kept, Process, files
<1>6. Listed'
  BY <1>3, Papers DEF Load, StoreInv, Listed
<1>7. ~toppled' => Roster'
  <2>. SUFFICES ASSUME ~toppled PROVE Roster'
    BY DEF Load
  <2>1. Roster
    BY DEF StoreInv
  <2>2. mem'["members"].all # {} => Staffed(mem'["members"])
    BY <1>2, <1>3, <2>1, Papers DEF Roster
  <2>3. phase' # "boot" => mem'["members"].all # {}
    BY <1>1
  <2>. QED BY <1>1, <2>1, <2>2, <2>3 DEF Load, Roster, files, Idle
<1>8. \A d \in Docs : disk[d] # Absent => mem'[d] = good[d]
  BY <1>3
<1>9. ~over' => Banned'
  <2>. SUFFICES ASSUME ~over' PROVE Banned'
    OBVIOUS
  <2>1. ~over /\ (disk["bans"] # Absent \/ good["bans"] = Nobody)
    BY DEF Load
  <2>2. mem'["bans"] = good["bans"]
    BY <1>3, <2>1
  <2>. QED BY <1>1, <2>1, <2>2 DEF Load, StoreInv, Banned, Idle
<1>. QED BY <1>4, <1>5, <1>6, <1>7, <1>8, <1>9 DEF StoreInv

\* A save of the bans that starts keeps the invariant, if the member it goes on
\* to remove leaves an owner behind.
LEMMA BansKeep ==
    ASSUME StoreInv, Ready, NEW list \in Lists, list.owners \subseteq list.all,
           ~toppled => Staffed(Less(mem["members"], banning')),
           Change("bans", list), banning' \subseteq list.all, removed' \subseteq removed,
           ~over => removed' \subseteq list.all,
           UNCHANGED <<files, phase, fleet, good, over, toppled>>
    PROVE  StoreInv'
<1>. USE DEF Docs
<1>1. /\ mem' = [mem EXCEPT !["bans"] = list]
      /\ saving' = "bans" /\ step' = "write" /\ phase = "up"
  BY DEF Change, Ready
<1>2. /\ mem' \in [Docs -> Lists]
      /\ mem'["bans"] = list /\ mem'["members"] = mem["members"]
  BY <1>1 DEF StoreInv, TypeOK
<1>3. TypeOK'
  <2>1. list.all \subseteq Members
    BY ListsChange
  <2>. QED BY <1>1, <1>2, <2>1 DEF StoreInv, TypeOK, files, Idle
<1>4. (\A d \in Docs : Kept(d)') /\ Listed' /\ Process'
  BY <1>1, <1>2 DEF StoreInv, Kept, Listed, Process, files
<1>5. ~toppled' => Roster'
  BY <1>1, <1>2 DEF StoreInv, Roster, files
<1>6. ~over' => Banned'
  BY <1>1, <1>2 DEF Ready, StoreInv, Banned, files, Idle
<1>. QED BY <1>3, <1>4, <1>5, <1>6 DEF StoreInv

\* Every command and every step of a boot keeps the invariant.
LEMMA CommandsKeep ==
    ASSUME StoreInv,
           \/ Listen
           \/ \E o \in People : Bootstrap(o)
           \/ \E m \in People, role \in Roles : Invite(m, role)
           \/ \E m \in Members : Remove(m) \/ Ban(m) \/ Unban(m)
           \/ \E m \in Members, role \in Roles : SetRole(m, role)
           \/ \E w \in Workers : PruneWorker(w) \/ SpawnWorker(w) \/ StopWorker(w)
    PROVE  StoreInv'
<1>. USE DEF Docs
<1>. DEFINE now  == mem["members"]
            bans == mem["bans"]
<1>1. /\ now \in Lists /\ bans \in Lists
      /\ now.owners \subseteq now.all /\ bans.owners \subseteq bans.all
      /\ People \subseteq Members /\ Workers \subseteq Members
      /\ fleet \subseteq Workers /\ toppled \in BOOLEAN
  BY DEF StoreInv, TypeOK, Listed, Members
<1>2. ASSUME ~toppled, phase \in {"prune", "up"} PROVE Staffed(now)
  BY <1>2 DEF StoreInv, Roster
<1>3. ASSUME NEW m \in Members, NEW role \in Roles
      PROVE  /\ More(now, m, role) \in Lists
             /\ More(now, m, role).owners \subseteq More(now, m, role).all
             /\ role = "owner" => Staffed(More(now, m, role))
             /\ ~toppled /\ phase = "up" /\ (role # "owner" => MayGo(m))
                   => Staffed(More(now, m, role))
  <2>1. /\ More(now, m, role) \in Lists /\ More(now, m, role).all = now.all \cup {m}
        /\ role = "owner" => More(now, m, role).owners = now.owners \cup {m}
        /\ role # "owner" => More(now, m, role).owners = now.owners \ {m}
        /\ Less(now, {m}).owners = now.owners \ {m}
    BY <1>1, ListsChange
  <2>2. ASSUME ~toppled, phase = "up", MayGo(m) PROVE now.owners \ {m} # {}
    BY <2>1, <2>2, OneRemains DEF Staffed
  <2>. QED BY <1>1, <2>1, <2>2 DEF Staffed
<1>4. ASSUME NEW m \in Members
      PROVE  /\ Less(now, {m}) \in Lists
             /\ Less(now, {m}).owners \subseteq Less(now, {m}).all
             /\ Less(now, {m}).owners = now.owners \ {m}
  BY <1>1, ListsChange
<1>5. CASE Listen
  <2>1. phase = "prune" /\ saving = Idle /\ phase' = "up"
        /\ UNCHANGED <<files, mem, save, fleet, hist>>
    BY <1>5 DEF Listen
  <2>2. TypeOK' /\ \A d \in Docs : Kept(d)'
    BY <2>1 DEF StoreInv, TypeOK, Kept, files, save, hist
  <2>3. ~toppled' => Roster'
    BY <2>1 DEF StoreInv, Roster, files, save, hist
  <2>4. Listed' /\ Process' /\ (~over' => Banned')
    BY <2>1 DEF StoreInv, Listed, Process, Banned, files, save, hist
  <2>. QED BY <2>2, <2>3, <2>4 DEF StoreInv
<1>6. ASSUME NEW o \in People, Bootstrap(o) PROVE StoreInv'
  <2>1. phase = "boot" /\ saving = Idle /\ "owner" \in Roles
    BY <1>6 DEF Bootstrap, StoreInv, Process, Roles
  <2>. QED BY <1>1, <1>3, <1>6, <2>1, ChangeKeeps DEF Bootstrap, hist
<1>7. ASSUME NEW m \in People, NEW role \in Roles, Invite(m, role) PROVE StoreInv'
  <2>1. m \notin now.owners /\ phase = "up" /\ saving = Idle
    BY <1>1, <1>7 DEF Invite, Ready
  <2>2. MayGo(m)
    BY <2>1 DEF MayGo
  <2>. QED BY <1>1, <1>3, <1>7, <2>1, <2>2, ChangeKeeps DEF Invite, hist
<1>8. ASSUME NEW m \in Members, Remove(m) PROVE StoreInv'
  <2>1. phase = "up" /\ saving = Idle /\ MayGo(m)
    BY <1>8 DEF Remove, Ready
  <2>2. ~toppled => Staffed(Less(now, {m}))
    BY <2>1, OneRemains
  <2>. QED BY <1>1, <1>4, <1>8, <2>1, <2>2, ChangeKeeps DEF Remove, hist
<1>9. ASSUME NEW m \in Members, NEW role \in Roles, SetRole(m, role) PROVE StoreInv'
  <2>1. phase = "up" /\ saving = Idle /\ (role # "owner" => MayGo(m))
    BY <1>9 DEF SetRole, Ready
  <2>. QED BY <1>1, <1>3, <1>9, <2>1, ChangeKeeps DEF SetRole, hist
<1>10. ASSUME NEW m \in Members, Ban(m) PROVE StoreInv'
  <2>1. phase = "up" /\ MayGo(m) /\ Ready /\ banning' = {m} /\ "member" \in Roles
    BY <1>10 DEF Ban, Ready, Roles
  <2>2. ~toppled => Staffed(Less(now, {m}))
    BY <2>1, OneRemains
  <2>3. /\ More(bans, m, "member") \in Lists
        /\ More(bans, m, "member").all = bans.all \cup {m}
        /\ More(bans, m, "member").owners = bans.owners \ {m}
    BY <1>1, <2>1, ListsChange
  <2>4. ~over => removed \subseteq bans.all
    BY <2>1 DEF StoreInv, Banned
  <2>. QED BY <1>1, <1>10, <2>1, <2>2, <2>3, <2>4, BansKeep DEF Ban, hist
<1>11. ASSUME NEW m \in Members, Unban(m) PROVE StoreInv'
  <2>1. Ready /\ phase = "up" /\ banning' = {} /\ removed' = removed \ {m}
    BY <1>11 DEF Unban, Ready, StoreInv, TypeOK
  <2>2. ~toppled => Staffed(Less(now, {}))
    <3>1. Less(now, {}).owners = now.owners \ {}
      BY <1>1, ListsChange
    <3>. QED BY <1>2, <2>1, <3>1 DEF Staffed
  <2>3. /\ Less(bans, {m}) \in Lists
        /\ Less(bans, {m}).all = bans.all \ {m} /\ Less(bans, {m}).owners = bans.owners \ {m}
    BY <1>1, ListsChange
  <2>4. ~over => removed' \subseteq bans.all \ {m}
    BY <2>1 DEF StoreInv, Banned
  <2>. QED BY <1>1, <1>11, <2>1, <2>2, <2>3, <2>4, BansKeep DEF Unban
<1>12. ASSUME NEW w \in Workers, PruneWorker(w) PROVE StoreInv'
  <2>1. phase = "prune" /\ saving = Idle /\ MayGo(w) /\ w \in Members
    BY <1>1, <1>12 DEF PruneWorker
  <2>2. ~toppled => Staffed(Less(now, {w}))
    BY <2>1, OneRemains
  <2>. QED BY <1>1, <1>4, <1>12, <2>1, <2>2, ChangeKeeps DEF PruneWorker, hist
<1>13. ASSUME NEW w \in Workers, SpawnWorker(w) PROVE StoreInv'
  <2>1. /\ phase = "up" /\ saving = Idle /\ w \in Members /\ "member" \in Roles
        /\ w \notin now.owners /\ fleet' \subseteq Workers
    BY <1>1, <1>13 DEF SpawnWorker, Ready, Roles
  <2>2. MayGo(w)
    BY <2>1 DEF MayGo
  <2>. QED BY <1>1, <1>3, <1>13, <2>1, <2>2, ChangeKeeps DEF SpawnWorker, hist
<1>14. ASSUME NEW w \in Workers, StopWorker(w) PROVE StoreInv'
  <2>1. /\ phase = "up" /\ saving = Idle /\ w \in Members /\ fleet' \subseteq Workers
        /\ toppled' = (toppled \/ now.owners = {w})
        /\ UNCHANGED <<files, phase, banning, good, over, removed>>
        /\ Change("members", Less(now, {w}))
    BY <1>1, <1>14 DEF StopWorker, Ready
  <2>2. toppled' \in BOOLEAN /\ (toppled => toppled')
    BY <2>1, Zenon
  <2>3. ~toppled' => Staffed(Less(now, {w}))
    BY <1>2, <1>4, <2>1 DEF Staffed
  <2>. QED BY <1>4, <2>1, <2>2, <2>3, ChangeKeeps
<1>. QED BY <1>5, <1>6, <1>7, <1>8, <1>9, <1>10, <1>11, <1>12, <1>13, <1>14

\* The inductive invariant of the store.
THEOREM StoreInductive == Spec => []StoreInv
<1>1. StoreInv /\ [Next]_vars => StoreInv'
  <2>. SUFFICES ASSUME StoreInv, [Next]_vars PROVE StoreInv'
    OBVIOUS
  <2>1. CASE UNCHANGED vars
    BY <2>1 DEF vars, files, save, hist, StoreInv, TypeOK, Kept, Roster, Listed, Process,
                Banned
  <2>. QED BY <2>1, BackupKeeps, SwapKeeps, FailureKeeps, LoadKeeps, CommandsKeep DEF Next
<1>. QED BY <1>1, StoreStarts, PTL DEF Spec

\* Every variable of the store keeps its type.
THEOREM TypeCorrect == Spec => []TypeOK
BY StoreInductive, PTL DEF StoreInv

\* What was last saved in full is always on disk, as document or as backup.
THEOREM AlwaysRecoverable == Spec => []Recoverable
<1>1. StoreInv => Recoverable
  <2>. SUFFICES ASSUME StoreInv, NEW d \in Docs
                PROVE  good[d] = disk[d].val \/ good[d] = bak[d].val
    BY DEF Recoverable
  <2>1. Kept(d) /\ good[d] \in Lists
    BY DEF StoreInv, TypeOK
  <2>. QED BY <2>1, Papers DEF Kept
<1>. QED BY <1>1, StoreInductive, PTL

\* Every roster on disk names an owner until a worker that is the only one is
\* stopped: the guards of remove, ban, role and the boot's pruning hold across
\* crashes, failed saves and restarts.
THEOREM OwnerAlwaysOnDisk == Spec => []OwnerOnDisk
<1>1. StoreInv => OwnerOnDisk
  BY DEF StoreInv, Roster, Staffed, OwnerOnDisk
<1>. QED BY <1>1, StoreInductive, PTL

\* As long as no document was lost, whoever a ban removed stays banned across
\* restarts.
THEOREM BansOutliveRemovals == Spec => []BanBeforeRemoval
<1>1. StoreInv => BanBeforeRemoval
  BY DEF StoreInv, Banned, BanBeforeRemoval
<1>. QED BY <1>1, StoreInductive, PTL

\* Every boot finds each document that is there as it was last saved.
THEOREM BootsOnLastSave == Spec => LoadsGood
<1>. DEFINE Found == \A d \in Docs : disk[d] # Absent => mem'[d] = good[d]
<1>1. StoreInv /\ [Next]_vars => [phase = "down" /\ phase' # "down" => Found]_vars
  <2>. SUFFICES ASSUME StoreInv, Next, phase = "down", phase' # "down"
                PROVE  Found
    BY DEF vars
  <2>1. saving = Idle
    BY DEF StoreInv, Process
  <2>2. CASE Load
    BY <2>2, LoadKeeps
  <2>3. CASE ~Load
    BY <2>1, <2>3 DEF Next, Write, Backup, Swap, SaveFails, Crash, Listen, Ready, Bootstrap,
        Invite, Remove, SetRole, Ban, Unban, PruneWorker, SpawnWorker, StopWorker
  <2>. QED BY <2>2, <2>3
<1>. QED BY <1>1, StoreInductive, PTL DEF Spec, LoadsGood

-----------------------------------------------------------------------------
(* The observer. *)

\* The first n events are in the buffer, with a cycle, in the brief or lost.
Shares(evs, cs, n) ==
    /\ 1..n = evs \cup Taken(cs) \cup brief.of \cup lost
    /\ evs \cap (brief.of \cup lost) = {} /\ brief.of \cap lost = {}
    /\ Taken(cs) \cap (evs \cup brief.of \cup lost) = {}

\* A cycle asks about the brief there is, with budget left.
Entitled(cs) == \A c \in cs : c.st = "asked" =>
    c.prev = brief.of /\ (Cap > 0 => window.spent < Cap)

OneAtATime(busy, cs) == IF busy THEN \E c \in Cycles : cs = {c} ELSE cs = {}

Spoken == /\ said \subseteq Elements(announced) \cup forgot
          /\ repeated \subseteq forgot
          /\ window.notes <= NotesPerWindow

\* ObserverTypeOK in parts that are proved one by one.
Flags == running \in BOOLEAN /\ queued \in BOOLEAN /\ held \in BOOLEAN
Clocks == /\ timer \in Off..Debounce \cup 1..MinInterval
          /\ since \in 0..MinInterval
          /\ window \in [age : 0..Window, spent : Nat, notes : Nat]
Speech == /\ announced \in Seq(Signals)
          /\ said \subseteq Signals /\ repeated \subseteq said /\ forgot \subseteq Signals
Data == /\ noted \in 0..MaxNoted /\ buffer \subseteq Events /\ cycles \subseteq Cycles
        /\ brief \in [of : SUBSET Events, signals : SUBSET Signals]
        /\ Speech
        /\ lost \subseteq Events

ObserverInv ==
    /\ ObserverTypeOK
    /\ OneAtATime(running, cycles)
    /\ Shares(buffer, cycles, noted)
    /\ Entitled(cycles)
    /\ BudgetHolds
    /\ Spoken
    /\ Awake

LEMMA TypeParts == /\ ObserverTypeOK <=> Flags /\ Clocks /\ Data
                   /\ ObserverTypeOK' <=> Flags' /\ Clocks' /\ Data'
  BY DEF ObserverTypeOK, Flags, Clocks, Data, Speech, Speech, notes

\* A rolled window is a window with no more spent and said in it.
LEMMA RolledWindow ==
    ASSUME NEW w \in [age : 0..Window, spent : Nat, notes : Nat]
    PROVE  /\ Rolled(w) \in [age : 0..Window, spent : Nat, notes : Nat]
           /\ Rolled(w).spent <= w.spent /\ Rolled(w).notes <= w.notes
  BY ObserverAssumption DEF Rolled

LEMMA TakenByOne == Taken({}) = {} /\ \A c : Taken({c}) = c.events
  BY DEF Taken

\* Beginning a cycle, or putting it off, keeps what fits together.
LEMMA KickKeeps ==
    ASSUME NEW busy \in BOOLEAN, NEW again \in BOOLEAN,
           NEW evs \in SUBSET Events, NEW others \in SUBSET Cycles,
           ObserverInv, Kick(busy, again, evs, others),
           noted' \in 0..MaxNoted, UNCHANGED <<brief, notes, lost>>,
           OneAtATime(busy, others), Shares(evs, others, noted'), Entitled(others)
    PROVE  ObserverInv'
<1>. DEFINE asked == [st |-> "asked", prev |-> brief.of, events |-> evs]
<1>1. window' \in [age : 0..Window, spent : Nat, notes : Nat]
      /\ window'.spent <= window.spent /\ window'.notes <= window.notes
  <2>1. window' = window \/ window' = Rolled(window)
    BY DEF Kick, Flush
  <2>. QED BY <2>1, RolledWindow DEF ObserverInv, ObserverTypeOK
<1>2. BudgetHolds' /\ Spoken'
  BY <1>1, ObserverAssumption DEF ObserverInv, ObserverTypeOK, BudgetHolds, Spoken, notes
<1>3. CASE UNCHANGED <<since, window>> /\ buffer' = evs /\ cycles' = others
           /\ held' = FALSE /\ running' = busy /\ queued' \in BOOLEAN
           /\ \/ timer' = Off /\ queued'
              \/ timer' \in 1..MinInterval
  <2>0. Flags' /\ Data'
    BY <1>3, TypeParts DEF ObserverInv, Flags, Data, Speech, notes
  <2>1. Clocks'
    BY <1>3, <1>1, TypeParts, ObserverAssumption DEF ObserverInv, Clocks, Off
  <2>2. Shares(buffer, cycles, noted)'
    BY <1>3 DEF Shares
  <2>3. Entitled(cycles)' /\ OneAtATime(running, cycles)'
    BY <1>3 DEF Entitled, OneAtATime
  <2>4. Awake'
    BY <1>3, ObserverAssumption DEF Awake, Off
  <2>. QED BY <2>0, <2>1, <2>2, <2>3, <2>4, <1>2, TypeParts DEF ObserverInv
<1>4. CASE ~busy /\ timer' = Off /\ running' = TRUE /\ queued' = again /\ Flush(evs, others)
  <2>1. others = {}
    BY <1>4 DEF OneAtATime
  <2>2. CASE /\ cycles' = {Over} /\ buffer' = evs /\ held' = (evs # {}) /\ UNCHANGED since
    <3>1. Over \in Cycles
      BY DEF Over, Cycles
    <3>2. Flags' /\ Data'
      BY <1>4, <2>2, <3>1, TypeParts DEF ObserverInv, Flags, Data, Speech, notes
    <3>5. Clocks'
      BY <1>4, <2>2, <1>1, TypeParts, ObserverAssumption DEF ObserverInv, Clocks, Off
    <3>3. Shares(buffer, cycles, noted)'
      <4>1. Taken(others) = {} /\ Taken(cycles') = {}
        BY <2>1, <2>2, TakenByOne DEF Over
      <4>. QED BY <4>1, <2>2 DEF Shares
    <3>4. Entitled(cycles)' /\ OneAtATime(running, cycles)'
      <4>1. Over.st # "asked"
        BY DEF Over
      <4>2. running' = TRUE /\ cycles' = {Over}
        BY <1>4, <2>2
      <4> HIDE DEF Over
      <4>. QED BY <3>1, <4>1, <4>2 DEF Entitled, OneAtATime
    <3>6. Awake'
      BY <2>2 DEF Awake
    <3>. QED BY <3>2, <3>3, <3>4, <3>5, <3>6, <1>2, TypeParts DEF ObserverInv
  <2>3. CASE /\ ~Spent(Rolled(window)) /\ cycles' = {asked} /\ buffer' = {} /\ held' = FALSE
             /\ since' = 0
    <3>1. asked \in Cycles
      BY DEF Cycles, ObserverInv, ObserverTypeOK
    <3>2. Flags' /\ Data'
      BY <1>4, <2>3, <3>1, TypeParts DEF ObserverInv, Flags, Data, Speech, notes
    <3>6. Clocks'
      BY <1>4, <2>3, <1>1, TypeParts, ObserverAssumption DEF ObserverInv, Clocks, Off
    <3>3. Shares(buffer, cycles, noted)'
      <4>1. Taken({asked}) = asked.events
        BY TakenByOne
      <4>3. Taken(others) = {} /\ Taken(cycles') = evs
        BY <4>1, <2>1, <2>3, TakenByOne
      <4>2. UNCHANGED <<brief, lost>> /\ buffer' = {}
        BY <2>3
      <4>. QED BY <4>2, <4>3 DEF Shares
    <3>4. Entitled(cycles)'
      <4>1. window' = Rolled(window)
        BY <1>4 DEF Flush
      <4>. QED BY <4>1, <2>3, <1>1, ObserverAssumption DEF Entitled, Spent
    <3>5. OneAtATime(running, cycles)' /\ Awake'
      BY <1>4, <2>3, <3>1 DEF OneAtATime, Awake
    <3>. QED BY <3>2, <3>3, <3>4, <3>5, <3>6, <1>2, TypeParts DEF ObserverInv
  <2>. QED BY <1>4, <2>1, <2>2, <2>3 DEF Flush
<1>5. Wait \in 0..MinInterval
  BY ObserverAssumption DEF Wait, ObserverInv, ObserverTypeOK
<1>6. CASE /\ busy /\ timer' = Off /\ running' = TRUE /\ queued' = TRUE
           /\ buffer' = evs /\ cycles' = others /\ held' = FALSE
           /\ UNCHANGED <<since, window>>
  BY <1>6, <1>3
<1>7. CASE /\ ~busy /\ Wait # 0
           /\ timer' = Wait /\ running' = FALSE /\ queued' = again
           /\ buffer' = evs /\ cycles' = others /\ held' = FALSE
           /\ UNCHANGED <<since, window>>
  <2>1. timer' \in 1..MinInterval
    BY <1>5, <1>7, ObserverAssumption
  <2>. QED BY <1>7, <2>1, <1>3
<1>. QED BY <1>4, <1>6, <1>7 DEF Kick

LEMMA ObserverStarts == ObserverInit => ObserverInv
<1>. SUFFICES ASSUME ObserverInit PROVE ObserverInv
  OBVIOUS
<1>1. Flags
  BY DEF ObserverInit, Flags
<1>5. Data
  BY ObserverAssumption DEF ObserverInit, Data, Speech, notes
<1>4. Clocks
  BY ObserverAssumption DEF ObserverInit, Clocks, Off
<1>2. Shares(buffer, cycles, noted)
  BY TakenByOne DEF ObserverInit, Shares
<1>3. OneAtATime(running, cycles) /\ Entitled(cycles) /\ BudgetHolds /\ Spoken /\ Awake
  BY ObserverAssumption DEF ObserverInit, OneAtATime, Entitled, BudgetHolds, Spoken, Awake, notes
<1>. QED BY <1>1, <1>2, <1>3, <1>4, <1>5, TypeParts DEF ObserverInv

-----------------------------------------------------------------------------
(* One step. *)

LEMMA NoteKeeps == ObserverInv /\ Note => ObserverInv'
<1>. SUFFICES ASSUME ObserverInv, Note PROVE ObserverInv'
  OBVIOUS
<1>. DEFINE evs == buffer \cup {noted + 1}
<1>1. noted' = noted + 1 /\ noted' \in 0..MaxNoted /\ noted' \in Events
      /\ UNCHANGED <<brief, notes, lost>>
  BY ObserverAssumption DEF Note, ObserverInv, ObserverTypeOK, Events
<1>2. evs \in SUBSET Events
  BY <1>1 DEF ObserverInv, ObserverTypeOK
<1>3. Shares(evs, cycles, noted')
  <2>1. 1..(noted') = (1..noted) \cup {noted + 1} /\ noted + 1 \notin 1..noted
    BY <1>1 DEF ObserverInv, ObserverTypeOK
  <2>. QED BY <2>1 DEF ObserverInv, Shares
<1>4. CASE Kick(running, queued, evs, cycles)
  BY <1>1, <1>2, <1>3, <1>4, KickKeeps DEF ObserverInv, ObserverTypeOK
<1>5. CASE /\ timer' = Debounce /\ buffer' = evs /\ held' = FALSE
           /\ UNCHANGED <<running, queued, cycles, since, window>>
  <2>1. Flags'
    BY <1>5, TypeParts DEF ObserverInv, Flags
  <2>2. Clocks'
    BY <1>5, TypeParts, ObserverAssumption DEF ObserverInv, Clocks, Off
  <2>3. Data'
    BY <1>1, <1>2, <1>5, TypeParts DEF ObserverInv, Data, Speech, notes
  <2>4. Shares(buffer, cycles, noted)'
    BY <1>1, <1>3, <1>5 DEF Shares
  <2>5. Entitled(cycles)' /\ OneAtATime(running, cycles)' /\ BudgetHolds' /\ Spoken'
    BY <1>1, <1>5 DEF ObserverInv, Entitled, OneAtATime, BudgetHolds, Spoken, notes
  <2>6. Awake'
    BY <1>5, ObserverAssumption DEF Awake, Off
  <2>. QED BY <2>1, <2>2, <2>3, <2>4, <2>5, <2>6, TypeParts DEF ObserverInv
<1>. QED BY <1>4, <1>5 DEF Note

LEMMA TimerKeeps == ObserverInv /\ TimerFires => ObserverInv'
  BY KickKeeps DEF ObserverInv, ObserverTypeOK, TimerFires

LEMMA CycleOverKeeps ==
    ASSUME ObserverInv, NEW c \in cycles, CycleOver(c)
    PROVE  ObserverInv'
<1>1. running /\ cycles = {c} /\ cycles \ {c} = {} /\ c = Over
  BY DEF ObserverInv, ObserverTypeOK, OneAtATime, CycleOver, Cycles
<1>2. UNCHANGED <<noted, brief, notes, lost>>
  BY DEF CycleOver
<1>3. Taken(cycles) = {} /\ Taken(cycles \ {c}) = {}
  BY <1>1, TakenByOne DEF Over
<1>4. Shares(buffer, cycles \ {c}, noted') /\ Entitled(cycles \ {c})
      /\ OneAtATime(FALSE, cycles \ {c})
  BY <1>1, <1>2, <1>3 DEF ObserverInv, Shares, Entitled, OneAtATime
<1>5. CASE Kick(FALSE, FALSE, buffer, cycles \ {c})
  BY <1>2, <1>4, <1>5, KickKeeps DEF ObserverInv, ObserverTypeOK
<1>6. CASE /\ ~queued \/ buffer = {}
           /\ running' = FALSE /\ queued' = FALSE /\ cycles' = cycles \ {c}
           /\ UNCHANGED <<buffer, timer, since, window, held>>
  <2>1. Flags'
    BY <1>6, TypeParts DEF ObserverInv, Flags
  <2>2. Clocks'
    BY <1>6, TypeParts DEF ObserverInv, Clocks
  <2>3. Data'
    BY <1>2, <1>6, TypeParts DEF ObserverInv, Data, Speech, notes
  <2>4. Shares(buffer, cycles, noted)' /\ Entitled(cycles)' /\ OneAtATime(running, cycles)'
    BY <1>2, <1>4, <1>6 DEF Shares, Entitled, OneAtATime
  <2>5. BudgetHolds' /\ Spoken' /\ Awake'
    BY <1>2, <1>6 DEF ObserverInv, BudgetHolds, Spoken, Awake, notes
  <2>. QED BY <2>1, <2>2, <2>3, <2>4, <2>5, TypeParts DEF ObserverInv
<1>. QED BY <1>5, <1>6 DEF CycleOver

\* What a cycle that was asked about leaves behind, whatever its answer.
LEMMA EndsKeeps ==
    ASSUME ObserverInv, NEW c \in cycles, c.st = "asked", Ends(c),
           UNCHANGED <<noted, buffer, pace, held>>
    PROVE  /\ OneAtATime(running, cycles)' /\ Entitled(cycles)' /\ Awake' /\ Flags'
           /\ cycles' \subseteq Cycles
           /\ Taken(cycles') = {} /\ Taken(cycles) = c.events
           /\ c.events \subseteq Events /\ c.prev = brief.of
           /\ Cap > 0 => window.spent < Cap
<1>1. running /\ cycles = {c} /\ cycles' = {Over} /\ c \in Cycles
  BY DEF ObserverInv, ObserverTypeOK, OneAtATime, Ends
<1>2. Over \in Cycles
  BY DEF Cycles
<1>3. OneAtATime(running, cycles)'
  BY <1>1, <1>2 DEF pace, OneAtATime
<1>7. Entitled(cycles)'
  BY <1>1 DEF Entitled, Over
<1>4. Awake' /\ Flags'
  BY TypeParts DEF ObserverInv, pace, Awake, Flags
<1>5. Taken(cycles') = {} /\ Taken(cycles) = c.events
  BY <1>1, TakenByOne DEF Over
<1>6. c.events \subseteq Events
  BY <1>1 DEF Cycles, Over
<1>. QED BY <1>1, <1>2, <1>3, <1>4, <1>5, <1>6, <1>7 DEF ObserverInv, Entitled

LEMMA CycleFailsKeeps ==
    ASSUME ObserverInv, NEW c \in cycles, CycleFails(c)
    PROVE  ObserverInv'
<1>1. Ends(c) /\ c.st = "asked" /\ lost' = lost \cup c.events
      /\ UNCHANGED <<noted, buffer, pace, window, brief, notes, held>>
  BY DEF CycleFails
<1>2. /\ OneAtATime(running, cycles)' /\ Entitled(cycles)' /\ Awake' /\ Flags'
      /\ cycles' \subseteq Cycles
      /\ Taken(cycles') = {} /\ Taken(cycles) = c.events
      /\ c.events \subseteq Events
  BY <1>1, EndsKeeps
<1>3. Clocks'
  BY <1>1, TypeParts DEF ObserverInv, Clocks, pace
<1>4. Data'
  BY <1>1, <1>2, TypeParts DEF ObserverInv, Data, Speech, notes
<1>5. Shares(buffer, cycles, noted)'
  BY <1>1, <1>2 DEF ObserverInv, Shares
<1>6. BudgetHolds' /\ Spoken'
  BY <1>1 DEF ObserverInv, BudgetHolds, Spoken, notes
<1>. QED BY <1>2, <1>3, <1>4, <1>5, <1>6, TypeParts DEF ObserverInv

\* What was announced at position i is remembered or dropped.
LEMMA RememberedOrDropped ==
    ASSUME NEW all \in Seq(Signals), NEW i \in 1..Len(all)
    PROVE  all[i] \in Elements(Remembered(all)) \/ i \in 1..Excess(all)
<1>. DEFINE n == Excess(all)
<1>1. n \in 0..Len(all)
  BY ObserverAssumption DEF Excess
<1>. HIDE DEF n
<1>. DEFINE kept == SubSeq(all, n + 1, Len(all))
<1>2. /\ Len(kept) = Len(all) - n /\ kept \in Seq(Signals)
      /\ \A k \in 1..(Len(all) - n) : kept[k] = all[n + k]
  BY <1>1
<1>. HIDE DEF kept
<1>3. CASE i \notin 1..n
  <2>1. i - n \in 1..(Len(all) - n) /\ n + (i - n) = i
    BY <1>1, <1>3
  <2>2. kept[i - n] = all[i] /\ i - n \in DOMAIN kept
    BY <1>2, <2>1
  <2>3. all[i] \in Elements(kept)
    BY <2>2 DEF Elements
  <2>. QED BY <2>3 DEF kept, n, Remembered
<1>. QED BY <1>3 DEF n

LEMMA Remembering ==
    ASSUME NEW all \in Seq(Signals)
    PROVE  /\ Remembered(all) \in Seq(Signals) /\ Dropped(all) \subseteq Elements(all)
           /\ Elements(all) \subseteq Elements(Remembered(all)) \cup Dropped(all)
<1>1. Excess(all) \in 0..Len(all)
  BY ObserverAssumption DEF Excess
<1>2. Remembered(all) \in Seq(Signals)
  BY <1>1 DEF Remembered
<1>3. Dropped(all) \subseteq Elements(all)
  BY <1>1 DEF Dropped, Elements
<1>4. ASSUME NEW i \in DOMAIN all
      PROVE  all[i] \in Elements(Remembered(all)) \cup Dropped(all)
  BY RememberedOrDropped DEF Dropped
<1>. QED BY <1>2, <1>3, <1>4 DEF Elements

\* A signal that is told although it was remembered before is forgotten on the
\* way.
LEMMA ToldAgain ==
    ASSUME ObserverInv, NEW told \in Seq(Signals), NEW i \in DOMAIN told,
           told[i] \in Elements(announced), told[i] \notin Before(told, i)
    PROVE  told[i] \in Dropped(announced \o told)
<1>. DEFINE all == announced \o told
            sub == SubSeq(told, 1, i - 1)
            part == announced \o sub
<1>1. announced \in Seq(Signals) /\ i \in 1..Len(told)
  BY DEF ObserverInv, ObserverTypeOK
<1>2. PICK p \in 1..Len(announced) : announced[p] = told[i]
  BY <1>1 DEF Elements
<1>3. sub \in Seq(Signals) /\ Len(sub) = i - 1 /\ \A k \in 1..(i - 1) : sub[k] = told[k]
  BY <1>1
<1>. HIDE DEF sub
<1>4. /\ part \in Seq(Signals) /\ Len(part) = Len(announced) + (i - 1)
      /\ all \in Seq(Signals) /\ Len(all) = Len(announced) + Len(told)
      /\ part[p] = told[i] /\ all[p] = told[i]
      /\ p \in 1..Len(part)
  <2>1. i - 1 \in Nat /\ Len(announced) \in Nat /\ Len(told) \in Nat
    BY <1>1
  <2>2. part \in Seq(Signals) /\ Len(part) = Len(announced) + (i - 1)
    <3>1. announced \in Seq(Signals) /\ sub \in Seq(Signals)
      BY <1>1, <1>3
    <3>2. part \in Seq(Signals) /\ Len(part) = Len(announced) + Len(sub)
      BY <3>1
    <3>. QED BY <3>2, <1>3
  <2>3. all \in Seq(Signals) /\ Len(all) = Len(announced) + Len(told)
    BY <1>1
  <2>4. part[p] = announced[p] /\ all[p] = announced[p]
    BY <1>1, <1>2, <1>3
  <2>. HIDE DEF part, all
  <2>. QED BY <1>2, <2>1, <2>2, <2>3, <2>4
<1>5. Before(told, i) = Elements(Remembered(part))
  BY DEF Before, sub
<1>6. p \in 1..Excess(part)
  BY <1>4, <1>5, RememberedOrDropped
<1>7. p \in 1..Excess(all)
  <2>1. Len(part) <= Len(all) /\ Len(part) \in Nat /\ Len(all) \in Nat
    BY <1>1, <1>4
  <2>2. Excess(part) \in Nat /\ Excess(all) \in Nat /\ Excess(part) <= Excess(all)
    <3>. HIDE DEF part, all
    <3>. QED BY <2>1, ObserverAssumption DEF Excess
  <2>. QED BY <1>2, <1>6, <2>2
<1>. QED BY <1>4, <1>7 DEF Dropped

\* Speaking keeps track of what was said, and of what was forgotten.
LEMMA SpeakKeeps ==
    ASSUME ObserverInv, NEW signals \in SUBSET Signals,
           NEW w \in [age : 0..Window, spent : Nat, notes : Nat],
           w.notes <= NotesPerWindow, Speak(signals, w)
    PROVE  /\ Spoken'
           /\ window' \in [age : 0..Window, spent : Nat, notes : Nat]
           /\ window'.spent = w.spent
           /\ Speech'
<1>1. PICK told \in Orders, failed \in SUBSET Signals :
         /\ \A i \in DOMAIN told : told[i] \notin Before(told, i)
         /\ w.notes + Len(told) <= NotesPerWindow
         /\ announced' = Remembered(announced \o told)
         /\ forgot' = forgot \cup Dropped(announced \o told)
         /\ window' = [w EXCEPT !.notes = @ + Len(told)]
         /\ said' = said \cup (Elements(told) \ failed)
         /\ repeated' = repeated \cup (said \cap (Elements(told) \ failed))
  BY DEF Speak
<1>2. told \in Seq(Signals) /\ Len(told) \in Nat
  <2>1. PICK n \in 0..Cardinality(Signals) : told \in [1..n -> Signals]
    BY DEF Orders
  <2>2. n \in Nat
    BY ObserverAssumption, FS_CardinalityType
  <2>. QED BY <2>1, <2>2
<1>3. /\ window' \in [age : 0..Window, spent : Nat, notes : Nat]
      /\ window'.spent = w.spent /\ window'.notes <= NotesPerWindow
  <2>1. w.notes + Len(told) \in Nat
    BY <1>2
  <2>2. /\ window' \in [age : 0..Window, spent : Nat, notes : Nat]
        /\ window'.spent = w.spent /\ window'.notes = w.notes + Len(told)
    BY <1>1, <2>1
  <2>. QED BY <1>1, <2>2
<1>. DEFINE all == announced \o told
<1>4. /\ announced \in Seq(Signals) /\ said \subseteq Elements(announced) \cup forgot
      /\ repeated \subseteq said /\ said \subseteq Signals /\ forgot \subseteq Signals
      /\ repeated \subseteq forgot
  BY DEF ObserverInv, ObserverTypeOK, Spoken
<1>5. /\ all \in Seq(Signals)
      /\ Elements(announced) \subseteq Elements(all) /\ Elements(told) \subseteq Elements(all)
      /\ Elements(told) \subseteq Signals /\ Elements(all) \subseteq Signals
  <2>1. all \in Seq(Signals) /\ Len(all) = Len(announced) + Len(told)
    BY <1>2, <1>4
  <2>2. ASSUME NEW i \in DOMAIN announced PROVE announced[i] \in Elements(all)
    <3>1. i \in DOMAIN all /\ all[i] = announced[i]
      BY <1>2, <1>4, <2>1, <2>2
    <3>. QED BY <3>1 DEF Elements
  <2>3. ASSUME NEW i \in DOMAIN told PROVE told[i] \in Elements(all)
    <3>1. Len(announced) + i \in DOMAIN all /\ all[Len(announced) + i] = told[i]
      BY <1>2, <1>4, <2>1, <2>3
    <3>. QED BY <3>1 DEF Elements
  <2>4. Elements(told) \subseteq Signals /\ Elements(all) \subseteq Signals
    BY <1>2, <2>1 DEF Elements
  <2>. QED BY <2>1, <2>2, <2>3, <2>4 DEF Elements
<1>6. /\ Remembered(all) \in Seq(Signals) /\ Dropped(all) \subseteq Elements(all)
      /\ Elements(all) \subseteq Elements(Remembered(all)) \cup Dropped(all)
  BY <1>5, Remembering
<1>7. said \cap Elements(told) \subseteq forgot \cup Dropped(all)
  <2>1. SUFFICES ASSUME NEW i \in DOMAIN told, told[i] \in Elements(announced)
                 PROVE  told[i] \in Dropped(all)
    BY <1>4 DEF Elements
  <2>. QED BY <1>1, <1>2, <2>1, ToldAgain
<1>8. Elements(announced)' = Elements(Remembered(all))
  BY <1>1 DEF Elements
<1>9. Speech'
  BY <1>1, <1>4, <1>5, <1>6 DEF Speech
<1>10. said' \subseteq (Elements(announced) \cup forgot)' /\ repeated' \subseteq forgot'
  BY <1>1, <1>4, <1>5, <1>6, <1>7, <1>8
<1>. QED BY <1>3, <1>9, <1>10 DEF Spoken

LEMMA CycleAnswersKeeps ==
    ASSUME ObserverInv, NEW c \in cycles, CycleAnswers(c)
    PROVE  ObserverInv'
<1>. DEFINE charged(cost) == [window EXCEPT !.spent = @ + cost]
<1>1. Ends(c) /\ c.st = "asked" /\ UNCHANGED <<noted, buffer, pace, held>>
  BY DEF CycleAnswers
<1>2. /\ OneAtATime(running, cycles)' /\ Entitled(cycles)' /\ Awake' /\ Flags'
      /\ cycles' \subseteq Cycles
      /\ Taken(cycles') = {} /\ Taken(cycles) = c.events
      /\ c.events \subseteq Events /\ c.prev = brief.of
      /\ Cap > 0 => window.spent < Cap
  BY <1>1, EndsKeeps
<1>3. PICK cost \in 0..MaxCost :
        \/ /\ lost' = lost \cup c.events
           /\ window' = charged(cost)
           /\ UNCHANGED <<brief, notes>>
        \/ \E signals \in SUBSET Signals :
              /\ brief' = [of |-> c.prev \cup c.events, signals |-> signals]
              /\ Speak(signals, Rolled(charged(cost)))
              /\ UNCHANGED lost
  BY DEF CycleAnswers
<1>. DEFINE w == charged(cost)
<1>4. /\ w \in [age : 0..Window, spent : Nat, notes : Nat]
      /\ Cap > 0 => w.spent < Cap + MaxCost
      /\ w.notes <= NotesPerWindow
  <2>1. cost \in Nat /\ cost <= MaxCost
    BY ObserverAssumption
  <2>2. window \in [age : 0..Window, spent : Nat, notes : Nat]
    BY DEF ObserverInv, ObserverTypeOK
  <2>3. w.spent = window.spent + cost /\ w.notes = window.notes
    BY <2>2
  <2>4. w \in [age : 0..Window, spent : Nat, notes : Nat]
    BY <2>1, <2>2
  <2>. QED BY <2>1, <2>2, <2>3, <2>4, <1>2, ObserverAssumption DEF ObserverInv, Spoken, notes
<1>. HIDE DEF w
<1>5. CASE lost' = lost \cup c.events /\ window' = w /\ UNCHANGED <<brief, notes>>
  <2>1. Clocks'
    BY <1>1, <1>4, <1>5, TypeParts DEF ObserverInv, Clocks, pace
  <2>2. Data'
    BY <1>1, <1>2, <1>5, TypeParts DEF ObserverInv, Data, Speech, notes
  <2>3. Shares(buffer, cycles, noted)'
    BY <1>1, <1>2, <1>5 DEF ObserverInv, Shares
  <2>4. BudgetHolds' /\ Spoken'
    BY <1>4, <1>5 DEF ObserverInv, BudgetHolds, Spoken, notes
  <2>. QED BY <1>2, <2>1, <2>2, <2>3, <2>4, TypeParts DEF ObserverInv
<1>6. ASSUME NEW signals \in SUBSET Signals,
             brief' = [of |-> c.prev \cup c.events, signals |-> signals],
             Speak(signals, Rolled(w)), UNCHANGED lost
      PROVE  ObserverInv'
  <2>1. /\ Rolled(w) \in [age : 0..Window, spent : Nat, notes : Nat]
        /\ Rolled(w).spent <= w.spent /\ Rolled(w).notes <= NotesPerWindow
    BY <1>4, RolledWindow, ObserverAssumption
  <2>2. /\ Spoken'
        /\ window' \in [age : 0..Window, spent : Nat, notes : Nat]
        /\ window'.spent = Rolled(w).spent
        /\ Speech'
    BY <2>1, <1>6, SpeakKeeps
  <2>3. Clocks'
    BY <1>1, <2>2, TypeParts DEF ObserverInv, Clocks, pace
  <2>4. brief' \in [of : SUBSET Events, signals : SUBSET Signals]
    BY <1>2, <1>6 DEF ObserverInv, ObserverTypeOK
  <2>5. Data'
    BY <1>1, <1>2, <1>6, <2>2, <2>4, TypeParts DEF ObserverInv, Data, Speech, notes
  <2>6. Shares(buffer, cycles, noted)'
    BY <1>1, <1>2, <1>6 DEF ObserverInv, Shares
  <2>7. BudgetHolds'
    BY <1>4, <2>1, <2>2, ObserverAssumption DEF BudgetHolds
  <2>. QED BY <1>2, <2>2, <2>3, <2>5, <2>6, <2>7, TypeParts DEF ObserverInv
<1>. QED BY <1>3, <1>5, <1>6 DEF w

LEMMA PeekKeeps == ObserverInv /\ Peek => ObserverInv'
<1>. SUFFICES ASSUME ObserverInv, Peek PROVE ObserverInv'
  OBVIOUS
<1>1. window' = Rolled(window)
      /\ UNCHANGED <<noted, buffer, timer, running, queued, since, cycles, brief, notes,
                     lost, held>>
  BY DEF Peek, pace, history
<1>2. /\ window' \in [age : 0..Window, spent : Nat, notes : Nat]
      /\ window'.spent <= window.spent /\ window'.notes <= window.notes
  BY <1>1, RolledWindow DEF ObserverInv, ObserverTypeOK
<1>3. Flags' /\ Data'
  BY <1>1, TypeParts DEF ObserverInv, Flags, Data, Speech, notes
<1>4. Clocks'
  BY <1>1, <1>2, TypeParts DEF ObserverInv, Clocks
<1>5. Shares(buffer, cycles, noted)' /\ OneAtATime(running, cycles)' /\ Awake'
  BY <1>1 DEF ObserverInv, Shares, OneAtATime, Awake
<1>6. Entitled(cycles)' /\ BudgetHolds' /\ Spoken'
  BY <1>1, <1>2, ObserverAssumption DEF ObserverInv, ObserverTypeOK, Entitled, BudgetHolds, Spoken, notes
<1>. QED BY <1>3, <1>4, <1>5, <1>6, TypeParts DEF ObserverInv

LEMMA TickKeeps == ObserverInv /\ Tick => ObserverInv'
<1>. SUFFICES ASSUME ObserverInv, Tick PROVE ObserverInv'
  OBVIOUS
<1>1. UNCHANGED <<noted, buffer, running, queued, cycles, brief, notes, lost, held>>
  BY DEF Tick, history
<1>2. /\ window' \in [age : 0..Window, spent : Nat, notes : Nat]
      /\ window'.spent = window.spent /\ window'.notes = window.notes
  <2>1. window \in [age : 0..Window, spent : Nat, notes : Nat]
    BY DEF ObserverInv, ObserverTypeOK
  <2>2. window' = [window EXCEPT !.age = Sooner(@, Window)] /\ Sooner(window.age, Window) \in 0..Window
    BY <2>1, ObserverAssumption DEF Tick, Sooner
  <2>. QED BY <2>1, <2>2
<1>3. Flags' /\ Data'
  BY <1>1, TypeParts DEF ObserverInv, Flags, Data, Speech, notes
<1>4. Clocks' /\ (timer' = Off => timer = Off)
  <2>1. since' \in 0..MinInterval
    <3>1. since \in 0..MinInterval
      BY DEF ObserverInv, ObserverTypeOK
    <3>. QED BY <3>1, ObserverAssumption DEF Tick, Sooner
  <2>2. timer \in Off..Debounce \cup 1..MinInterval
    BY DEF ObserverInv, ObserverTypeOK
  <2>3. timer' \in Off..Debounce \cup 1..MinInterval /\ (timer' = Off => timer = Off)
    BY <2>2, ObserverAssumption DEF Tick, Off
  <2>. QED BY <1>2, <2>1, <2>3 DEF Clocks
<1>5. Shares(buffer, cycles, noted)' /\ OneAtATime(running, cycles)' /\ Awake'
  BY <1>1, <1>4 DEF ObserverInv, Shares, OneAtATime, Awake
<1>6. Entitled(cycles)' /\ BudgetHolds' /\ Spoken'
  BY <1>1, <1>2 DEF ObserverInv, Entitled, BudgetHolds, Spoken, notes
<1>. QED BY <1>3, <1>4, <1>5, <1>6, TypeParts DEF ObserverInv

LEMMA StutterKeeps == ObserverInv /\ UNCHANGED observerVars => ObserverInv'
<1>. SUFFICES ASSUME ObserverInv, UNCHANGED observerVars PROVE ObserverInv'
  OBVIOUS
<1>1. Flags' /\ Clocks' /\ Data'
  BY TypeParts DEF ObserverInv, observerVars, pace, history, Flags, Clocks, Data, Speech, notes
<1>2. Shares(buffer, cycles, noted)' /\ OneAtATime(running, cycles)' /\ Awake'
  BY DEF ObserverInv, observerVars, pace, history, Shares, OneAtATime, Awake
<1>3. Entitled(cycles)' /\ BudgetHolds' /\ Spoken'
  BY DEF ObserverInv, observerVars, history, Entitled, BudgetHolds, Spoken, notes
<1>. QED BY <1>1, <1>2, <1>3, TypeParts DEF ObserverInv

LEMMA ObserverKeeps == ObserverInv /\ [ObserverNext]_observerVars => ObserverInv'
  BY NoteKeeps, TimerKeeps, CycleOverKeeps, CycleFailsKeeps, CycleAnswersKeeps,
     PeekKeeps, TickKeeps, StutterKeeps DEF ObserverNext

-----------------------------------------------------------------------------
(* The theorems. *)

\* In every reachable state a running observer has exactly one cycle, which goes
\* by the latest brief and had budget left when it began; and everything that
\* happened is in one place.
THEOREM ObserverInductive == ObserverSpec => []ObserverInv
  BY ObserverStarts, ObserverKeeps, PTL DEF ObserverSpec

\* Every variable keeps its type.
THEOREM ObserverTypes == ObserverSpec => []ObserverTypeOK
<1>1. ObserverInv => ObserverTypeOK
  BY DEF ObserverInv
<1>. QED BY <1>1, ObserverInductive, PTL

\* No event is summarised twice or forgotten, but with a cycle that failed.
THEOREM NothingForgotten == ObserverSpec => []EventsAccounted
<1>1. ObserverInv => EventsAccounted
  BY DEF ObserverInv, Shares, EventsAccounted
<1>. QED BY <1>1, ObserverInductive, PTL

\* No cycle discards the work of another.
THEOREM BriefsBuildOnBriefs == ObserverSpec => []BuiltOnLatest
<1>1. ObserverInv => BuiltOnLatest
  BY DEF ObserverInv, Entitled, BuiltOnLatest, Asked
<1>. QED BY <1>1, ObserverInductive, PTL

\* A window is overspent by no more than one cycle.
THEOREM BudgetAlwaysHolds == ObserverSpec => []BudgetHolds
<1>1. ObserverInv => BudgetHolds
  BY DEF ObserverInv
<1>. QED BY <1>1, ObserverInductive, PTL

\* A signal is announced again only when newer ones made the observer forget it,
\* and no window hears too many.
THEOREM AlwaysSpeaksRarely == ObserverSpec => []SpeaksRarely
<1>1. ObserverInv => SpeaksRarely
  BY DEF ObserverInv, Spoken, SpeaksRarely, notes
<1>. QED BY <1>1, ObserverInductive, PTL

\* Nothing buffered is left without something to wake the observer.
THEOREM NeverAsleep == ObserverSpec => []Awake
<1>1. ObserverInv => Awake
  BY DEF ObserverInv
<1>. QED BY <1>1, ObserverInductive, PTL

\* No path to the model goes around the rate floor.
LEMMA StepPaced ==
    ASSUME ObserverInv, [ObserverNext]_observerVars
    PROVE  (\E c \in cycles' \ cycles : c.st = "asked") => since = MinInterval
<1>. SUFFICES ASSUME NEW c \in cycles' \ cycles, c.st = "asked"
              PROVE  since = MinInterval
  OBVIOUS
<1>1. ASSUME NEW busy, NEW again, NEW evs, NEW others \in SUBSET cycles,
             Kick(busy, again, evs, others)
      PROVE  since = MinInterval
  BY <1>1, ObserverAssumption DEF Kick, Wait, ObserverInv, ObserverTypeOK
<1>2. CASE Note
  BY <1>1, <1>2 DEF Note
<1>3. CASE TimerFires
  BY <1>1, <1>3 DEF TimerFires
<1>4. CASE \E d \in cycles : CycleOver(d)
  BY <1>1, <1>4 DEF CycleOver
<1>5. CASE \E d \in cycles : CycleFails(d) \/ CycleAnswers(d)
  BY <1>5 DEF CycleFails, CycleAnswers, Ends, Over
<1>6. CASE Peek \/ Tick \/ UNCHANGED observerVars
  BY <1>6 DEF Peek, Tick, observerVars
<1>. QED BY <1>2, <1>3, <1>4, <1>5, <1>6 DEF ObserverNext

THEOREM AlwaysPaced == ObserverSpec => Paced
<1>1. ObserverInv /\ [ObserverNext]_observerVars => ((\E c \in cycles' \ cycles : c.st = "asked") => since = MinInterval)
  BY StepPaced
<1>. QED BY <1>1, ObserverInductive, PTL DEF ObserverSpec, Paced
=============================================================================
