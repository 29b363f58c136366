-------------------------------- MODULE Store --------------------------------
(***************************************************************************)
(* The durable state of a room (src/src/state.mjs) through crashes and      *)
(* failing writes, with what boots on it (src/src/server.mjs) and the       *)
(* commands that save it (src/src/admin.mjs, src/src/workers.mjs).          *)
(*                                                                         *)
(* A handler runs alone, but the process may die between any two calls to   *)
(* the file system, so a save is one action per call. "mem" is what the     *)
(* process holds and is gone with it.                                       *)
(***************************************************************************)
EXTENDS Naturals, FiniteSets

CONSTANTS People, Workers,  \* members; a worker's is marked as such
          Upsets            \* what may go wrong, see below

Members == People \cup Workers
Docs    == {"members", "bans"}
Idle    == "idle"

\* What a document says: who is on the roster and who of them is an owner. The
\* list of bans has names only.
Lists      == [all : SUBSET Members, owners : SUBSET Members]
Nobody     == [all |-> {}, owners |-> {}]
Less(v, X) == [all |-> v.all \ X, owners |-> v.owners \ X]
More(v, m, role) == [all    |-> v.all \cup {m},
                     owners |-> IF role = "owner" THEN v.owners \cup {m} ELSE v.owners \ {m}]
Roles      == {"owner", "member"}

Files    == [st : {"absent", "whole"}, val : Lists]
Absent   == [st |-> "absent", val |-> Nobody]
Whole(v) == [st |-> "whole", val |-> v]

\* "crash": the process dies between two calls; "full": writing the temporary
\* file fails; "swap": a rename fails.
ASSUME StoreAssumption ==
    /\ Upsets \subseteq {"crash", "full", "swap"}
    /\ IsFiniteSet(People) /\ IsFiniteSet(Workers) /\ People \cap Workers = {}

VARIABLES
    disk, bak,        \* each document and its backup
    phase,            \* the process: "down", "boot" on an empty roster, "prune" or "up"
    mem,              \* the documents in memory
    saving, step,     \* the document being saved (or Idle) and the call that is next
    banning,          \* who the ban command under way removes next, if anybody
    fleet,            \* the workers this process has started and not stopped
    good,             \* history: each document as it was last saved in full
    over,             \* history: a boot took a lost document for a first run
    toppled,          \* history: a worker was stopped that was the only owner
    removed           \* history: banned people whose removal has been saved

files == <<disk, bak>>
save  == <<saving, step, banning>>
hist  == <<good, over, toppled, removed>>
vars  == <<files, phase, mem, save, fleet, hist>>

Init == /\ disk = [d \in Docs |-> Absent]
        /\ bak = disk
        /\ phase = "down" /\ mem = [d \in Docs |-> Nobody]
        /\ saving = Idle /\ step = "write" /\ banning = {}
        /\ fleet = {}
        /\ good = [d \in Docs |-> Nobody]
        /\ over = FALSE /\ toppled = FALSE /\ removed = {}

\* A change in memory and the start of its save.
Change(d, value) == /\ mem' = [mem EXCEPT ![d] = value]
                    /\ saving' = d /\ step' = "write"

\* Something must be able to administer the room.
MayGo(m) == m \in mem["members"].owners => Cardinality(mem["members"].owners) > 1

-----------------------------------------------------------------------------
(* #writeAtomic, call by call. Nothing reads the temporary file but the save
   that wrote it, so it is no part of the state: what is swapped in is mem. *)

\* The temporary file is written.
Write ==
    /\ saving # Idle /\ step = "write"
    /\ step' = "backup"
    /\ UNCHANGED <<files, phase, mem, saving, banning, fleet, hist>>

\* Mutant: the document makes way for its successor without a backup.
BackupDeletes ==
    /\ saving # Idle /\ step = "backup"
    /\ disk' = [disk EXCEPT ![saving] = Absent]
    /\ step' = "swap"
    /\ UNCHANGED <<bak, phase, mem, saving, banning, fleet, hist>>

\* The document becomes its backup; a failure to do so is ignored.
Backup ==
    /\ saving # Idle /\ step = "backup"
    /\ \/ /\ disk[saving] # Absent
          /\ bak' = [bak EXCEPT ![saving] = disk[saving]]
          /\ disk' = [disk EXCEPT ![saving] = Absent]
       \/ /\ disk[saving] = Absent \/ "swap" \in Upsets
          /\ UNCHANGED <<disk, bak>>
    /\ step' = "swap"
    /\ UNCHANGED <<phase, mem, saving, banning, fleet, hist>>

\* The temporary file becomes the document. A ban goes on to remove its member.
Swap ==
    /\ saving # Idle /\ step = "swap"
    /\ disk' = [disk EXCEPT ![saving] = Whole(mem[saving])]
    /\ good' = [good EXCEPT ![saving] = mem[saving]]
    /\ \/ /\ saving = "bans" /\ banning \cap mem["members"].all # {}
          /\ Change("members", Less(mem["members"], banning))
          /\ UNCHANGED <<banning, removed>>
       \/ /\ saving = "bans" => banning \cap mem["members"].all = {}
          /\ saving' = Idle /\ step' = "write" /\ banning' = {}
          /\ removed' = removed \cup (IF saving = "members" THEN banning ELSE {})
          /\ UNCHANGED mem
    /\ UNCHANGED <<bak, phase, fleet, over, toppled>>

\* A call throws. The command reports it and the room goes on with what is in
\* memory; a boot that fails ends the process.
SaveFails ==
    /\ saving # Idle
    /\ \/ step = "write" /\ "full" \in Upsets
       \/ step = "swap" /\ "swap" \in Upsets
    /\ saving' = Idle /\ step' = "write" /\ banning' = {}
    /\ phase' = IF phase = "up" THEN "up" ELSE "down"
    /\ mem' = IF phase = "up" THEN mem ELSE [d \in Docs |-> Nobody]
    /\ UNCHANGED <<files, fleet, hist>>

-----------------------------------------------------------------------------
(* The process *)

Crash ==
    /\ "crash" \in Upsets /\ phase # "down"
    /\ phase' = "down" /\ mem' = [d \in Docs |-> Nobody]
    /\ saving' = Idle /\ step' = "write" /\ banning' = {} /\ fleet' = {}
    /\ UNCHANGED <<files, hist>>

\* load: a file that is not there is a first run.
Load ==
    /\ phase = "down"
    /\ mem' = [d \in Docs |-> disk[d].val]
    /\ over' = (over \/ \E d \in Docs : disk[d] = Absent /\ good[d] # Nobody)
    /\ phase' = IF disk["members"].val.all = {} THEN "boot" ELSE "prune"
    /\ UNCHANGED <<files, save, fleet, good, toppled, removed>>

\* A room without members gets an owner.
Bootstrap(o) ==
    /\ phase = "boot"
    /\ Change("members", More(mem["members"], o, "owner"))
    /\ phase' = "prune"
    /\ UNCHANGED <<files, banning, fleet, hist>>

\* No worker outlives the room: their members go, one removal each. That is the
\* admin's remove, which leaves the last owner alone.
PruneWorker(w) ==
    /\ phase = "prune" /\ saving = Idle
    /\ w \in mem["members"].all /\ MayGo(w)
    /\ Change("members", Less(mem["members"], {w}))
    /\ UNCHANGED <<files, phase, banning, fleet, hist>>

Listen ==
    /\ phase = "prune" /\ saving = Idle
    /\ \A w \in mem["members"].all \cap Workers : ~MayGo(w)
    /\ phase' = "up"
    /\ UNCHANGED <<files, mem, save, fleet, hist>>

-----------------------------------------------------------------------------
(* The commands *)

Ready == phase = "up" /\ saving = Idle

\* invite, of a member or of a further owner.
Invite(m, role) ==
    /\ Ready /\ m \notin mem["members"].all \cup mem["bans"].all
    /\ Change("members", More(mem["members"], m, role))
    /\ UNCHANGED <<files, phase, banning, fleet, hist>>

\* Mutant: the last owner may go.
RemoveAnybody(m) ==
    /\ Ready /\ m \in mem["members"].all
    /\ Change("members", Less(mem["members"], {m}))
    /\ UNCHANGED <<files, phase, banning, fleet, hist>>

Remove(m) ==
    /\ Ready /\ m \in mem["members"].all /\ MayGo(m)
    /\ Change("members", Less(mem["members"], {m}))
    /\ UNCHANGED <<files, phase, banning, fleet, hist>>

\* role, of anybody on the roster, a worker's member included.
SetRole(m, role) ==
    /\ Ready /\ m \in mem["members"].all
    /\ role # "owner" => MayGo(m)
    /\ Change("members", More(mem["members"], m, role))
    /\ UNCHANGED <<files, phase, banning, fleet, hist>>

\* Mutant: the member goes first, the ban is saved after.
BanLate(m) ==
    /\ Ready /\ m \in mem["members"].all /\ MayGo(m)
    /\ mem' = [mem EXCEPT !["members"] = Less(@, {m}), !["bans"] = More(@, m, "member")]
    /\ saving' = "members" /\ step' = "write" /\ banning' = {m}
    /\ UNCHANGED <<files, phase, fleet, hist>>

\* ban, of a member or of a name nobody has: the ban is saved, then the member
\* removed and the roster saved (Swap).
Ban(m) ==
    /\ Ready /\ MayGo(m)
    /\ Change("bans", More(mem["bans"], m, "member"))
    /\ banning' = {m}
    /\ UNCHANGED <<files, phase, fleet, hist>>

Unban(m) ==
    /\ Ready /\ m \in mem["bans"].all
    /\ Change("bans", Less(mem["bans"], {m}))
    /\ removed' = removed \ {m}
    /\ UNCHANGED <<files, phase, banning, fleet, good, over, toppled>>

\* The fleet mints a worker's member on a name and a handle that are free.
SpawnWorker(w) ==
    /\ Ready /\ w \notin mem["members"].all \cup fleet /\ mem["members"].owners # {}
    /\ fleet' = fleet \cup {w}
    /\ Change("members", More(mem["members"], w, "member"))
    /\ UNCHANGED <<files, phase, banning, hist>>

\* Its stop revokes the member, whatever has become of it: no guard of the last
\* owner here.
StopWorker(w) ==
    /\ Ready /\ w \in fleet
    /\ fleet' = fleet \ {w}
    /\ toppled' = (toppled \/ mem["members"].owners = {w})
    /\ Change("members", Less(mem["members"], {w}))
    /\ UNCHANGED <<files, phase, banning, good, over, removed>>

-----------------------------------------------------------------------------
Next == \/ Write \/ Backup \/ Swap \/ SaveFails
        \/ Crash \/ Load \/ Listen
        \/ \E o \in People : Bootstrap(o)
        \/ \E m \in People, role \in Roles : Invite(m, role)
        \/ \E m \in Members : Remove(m) \/ Ban(m) \/ Unban(m)
        \/ \E m \in Members, role \in Roles : SetRole(m, role)
        \/ \E w \in Workers : PruneWorker(w) \/ SpawnWorker(w) \/ StopWorker(w)

Spec == Init /\ [][Next]_vars

-----------------------------------------------------------------------------
(* Properties *)

TypeOK ==
    /\ disk \in [Docs -> Files] /\ bak \in [Docs -> Files]
    /\ phase \in {"down", "boot", "prune", "up"}
    /\ mem \in [Docs -> Lists] /\ good \in [Docs -> Lists]
    /\ saving \in Docs \cup {Idle} /\ (saving = Idle => banning = {}) /\ step \in {"write", "backup", "swap"}
    /\ banning \subseteq Members /\ fleet \subseteq Workers /\ removed \subseteq Members
    /\ over \in BOOLEAN /\ toppled \in BOOLEAN

\* A boot finds every document that is there as it was last saved: a save that
\* was cut short leaves no trace.
LoadsGood == [][phase = "down" /\ phase' # "down" =>
                   \A d \in Docs : disk[d] # Absent => mem'[d] = good[d]]_vars

\* What was last saved is on disk, as the document or as its backup, whatever
\* failed since: the operator can always restore it.
Recoverable == \A d \in Docs : good[d] \in {disk[d].val, bak[d].val}

\* A member whom a ban removed is banned after every restart, as long as no
\* document was lost: the ban reaches the disk before the removal does.
BanBeforeRemoval == ~over => removed \subseteq good["bans"].all

\* "Something must be able to administer it" (admin.mjs): every roster on disk,
\* the backup included, names an owner, whatever is removed, banned, demoted,
\* pruned or lost. The one command that strands a room is the stop of a worker
\* whom the role command has made its only owner.
OwnerOnDisk == ~toppled => \A f \in {disk["members"], bak["members"]} :
                               f.st = "whole" => f.val.owners # {}

-----------------------------------------------------------------------------
(* What comments of the repository say and the code does not do *)

\* "A reader sees either the whole old file or the whole new one" (state.mjs),
\* so that no crash can make server.mjs bootstrap a fresh owner over a roster.
BootstrapOnce == ~over
=============================================================================
