------------------------------ MODULE PackCache ------------------------------
(***************************************************************************)
(* DirResourcePackCache (resource_pack_cache.go) as the client's handlers  *)
(* use it (conn.go): programs that share a directory load a pack from it   *)
(* or download and store it, while programs are killed, writes fail and    *)
(* the machine loses power.                                                *)
(*                                                                         *)
(* Two packs with the same UUID and version differ in size, and so share   *)
(* the file the model is about.  A pack is its size; a file is the pack    *)
(* and whether all of it is there.                                         *)
(***************************************************************************)
EXTENDS Integers

CONSTANTS
  Programs,   \* programs with a connection that uses the cache
  MaxFaults   \* bound: failed writes, crashes and wrong downloads

ASSUME PackCacheAssumption == MaxFaults \in Nat

VARIABLES
  file,      \* the file under the final name
  synced,    \* whether its contents have reached the disk
  program,   \* the connection of each program, and its temporary file
  faults

cacheVars == <<file, synced, program, faults>>

Packs == {1, 2}
NoFile == [pack |-> 0, whole |-> FALSE]
Idle == [pc |-> "idle", key |-> 0, pack |-> 0, temp |-> NoFile]
Torn(p) == [pack |-> p, whole |-> FALSE]
Whole(p) == [pack |-> p, whole |-> TRUE]

CacheInit ==
  /\ file = NoFile /\ synced = TRUE
  /\ program = [c \in Programs |-> Idle]
  /\ faults = 0

Fault == faults < MaxFaults /\ faults' = faults + 1

(* ResourcePackCacheKey.Matches: the sizes agree too. *)
Matches(key, pack) == key = pack

(* handleResourcePacksInfo loads the advertised pack.  A file that does    *)
(* not parse is an error of Load and, like a missing or another pack, is   *)
(* downloaded.                                                             *)
Load(c) ==
  /\ program[c].pc = "idle"
  /\ \E key \in Packs :
       program' = [program EXCEPT ![c] =
         IF file.whole /\ Matches(key, file.pack)
         THEN [Idle EXCEPT !.pc = "used", !.key = key, !.pack = file.pack]
         ELSE [Idle EXCEPT !.pc = "download", !.key = key]]
  /\ UNCHANGED <<file, synced, faults>>

(* storeResourcePack: a download that does not match its key is not stored. *)
storeResourcePack(c) ==
  /\ program[c].pc = "download"
  /\ \/ /\ program' = [program EXCEPT ![c].pc = "create", ![c].pack = program[c].key]
        /\ UNCHANGED faults
     \/ \E pack \in Packs \ {program[c].key} :
          /\ program' = [program EXCEPT ![c].pc = IF Matches(program[c].key, pack) THEN "create" ELSE "done",
                                        ![c].pack = pack]
          /\ Fault
  /\ UNCHANGED <<file, synced>>

(* Mutant: the pack is written under its final name. *)
createFinal(c) ==
  /\ program[c].pc = "create"
  /\ \/ /\ program' = [program EXCEPT ![c].pc = "copy", ![c].temp = Torn(program[c].pack)]
        /\ file' = Torn(program[c].pack) /\ synced' = FALSE
        /\ UNCHANGED faults
     \/ program' = [program EXCEPT ![c].pc = "done"] /\ Fault /\ UNCHANGED <<file, synced>>

(* Store: a temporary file is made, *)
CreateTemp(c) ==
  /\ program[c].pc = "create"
  /\ \/ /\ program' = [program EXCEPT ![c].pc = "copy", ![c].temp = Torn(program[c].pack)]
        /\ UNCHANGED faults
     \/ program' = [program EXCEPT ![c].pc = "done"] /\ Fault
  /\ UNCHANGED <<file, synced>>

(* filled and closed, with an early return (and its removal) on an error, *)
Copy(c) ==
  /\ program[c].pc = "copy"
  /\ \/ /\ program' = [program EXCEPT ![c].pc = "rename", ![c].temp = Whole(program[c].pack)]
        /\ UNCHANGED faults
     \/ program' = [program EXCEPT ![c].pc = "done", ![c].temp = NoFile] /\ Fault
  /\ UNCHANGED <<file, synced>>

(* Mutant: an entry that exists is kept. *)
renameKeeps(c) ==
  /\ program[c].pc = "rename"
  /\ program' = [program EXCEPT ![c].pc = "done", ![c].temp = NoFile]
  /\ \/ /\ file' = (IF file = NoFile THEN program[c].temp ELSE file)
        /\ synced' = FALSE /\ UNCHANGED faults
     \/ Fault /\ UNCHANGED <<file, synced>>

(* and renamed over what was there; nothing waits for the disk. *)
Rename(c) ==
  /\ program[c].pc = "rename"
  /\ program' = [program EXCEPT ![c].pc = "done", ![c].temp = NoFile]
  /\ \/ file' = program[c].temp /\ synced' = FALSE /\ UNCHANGED faults
     \/ Fault /\ UNCHANGED <<file, synced>>

(* The connection ends, and the program makes another one. *)
Finish(c) ==
  /\ program[c].pc \in {"used", "done"}
  /\ program' = [program EXCEPT ![c] = Idle]
  /\ UNCHANGED <<file, synced, faults>>

(* A program is killed; its temporary file stays behind, under a name      *)
(* nobody reads.                                                           *)
Kill(c) ==
  /\ program[c].pc # "idle"
  /\ program' = [program EXCEPT ![c] = Idle]
  /\ Fault
  /\ UNCHANGED <<file, synced>>

(* External: the system writes the file to the disk, or loses power first. *)
Sync ==
  /\ ~synced /\ synced' = TRUE
  /\ UNCHANGED <<file, program, faults>>

PowerLoss ==
  /\ Fault
  /\ file' = IF synced THEN file ELSE Torn(file.pack)
  /\ synced' = TRUE
  /\ program' = [c \in Programs |-> Idle]

Store(c) == storeResourcePack(c) \/ CreateTemp(c) \/ Copy(c) \/ Rename(c)

CacheNext ==
  \/ \E c \in Programs : Load(c) \/ Store(c) \/ Finish(c) \/ Kill(c)
  \/ Sync \/ PowerLoss

CacheSpec == CacheInit /\ [][CacheNext]_cacheVars

(* A download and its store run to their end unless something fails. *)
CacheFairness == \A c \in Programs : WF_cacheVars(Store(c))

------------------------------------------------------------------------------
(* Properties. *)

(* Only a loss of power leaves half a pack under the final name: no step   *)
(* of a program, and no program's death, does.                             *)
FilesWhole == [][file'.whole \/ file' = file \/ PowerLoss]_cacheVars

(* A torn file heals: once nothing fails any more, the next connection     *)
(* that looks for a pack replaces it.                                      *)
TornFileHeals ==
  \A c \in Programs :
    (faults = MaxFaults /\ file # NoFile /\ ~file.whole /\ program[c].pc = "download") ~> file.whole
==============================================================================
