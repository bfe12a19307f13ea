--------------------------- MODULE PackCacheProofs ---------------------------
(***************************************************************************)
(* A theorem about the resource pack cache: however many programs share    *)
(* the directory, only a loss of power leaves half a pack in it.           *)
(***************************************************************************)
EXTENDS PackCache, TLAPS

Files == [pack : Packs \cup {0}, whole : BOOLEAN]

Connections ==
  [pc : {"idle", "used", "download", "create", "copy", "rename", "done"},
   key : Packs \cup {0}, pack : Packs \cup {0}, temp : Files]

(* What every connection keeps to itself: the temporary file it is about   *)
(* to rename holds the whole pack, whatever the others did since it was    *)
(* filled, and the pack is the one its key asks for.                       *)
CacheInv ==
  /\ file \in Files
  /\ program \in [Programs -> Connections]
  /\ \A c \in Programs :
       /\ program[c].pc = "download" => program[c].key \in Packs
       /\ program[c].pc = "rename" => program[c].temp.whole
       /\ program[c].pc \in {"create", "copy", "rename"} => program[c].pack = program[c].key
       /\ program[c].pc \in {"copy", "rename"} => program[c].temp.pack = program[c].key

LEMMA CacheInitInv == CacheInit => CacheInv
BY DEF CacheInit, CacheInv, Idle, NoFile, Files, Connections

(* Every step of a program, of the disk and of the power supply keeps it.  *)
LEMMA CacheInductive == CacheInv /\ [CacheNext]_cacheVars => CacheInv'
<1> SUFFICES ASSUME CacheInv, [CacheNext]_cacheVars PROVE CacheInv'
  OBVIOUS
<1> USE DEF CacheInv, Connections, Files, Idle, NoFile, Packs
<1>1. ASSUME NEW c \in Programs, Load(c) PROVE CacheInv'
  <2>1. Idle \in Connections
    OBVIOUS
  <2>2. PICK key \in Packs : program' = [program EXCEPT ![c] =
          IF file.whole /\ Matches(key, file.pack)
          THEN [Idle EXCEPT !.pc = "used", !.key = key, !.pack = file.pack]
          ELSE [Idle EXCEPT !.pc = "download", !.key = key]]
    BY <1>1 DEF Load
  <2>3. /\ [Idle EXCEPT !.pc = "used", !.key = key, !.pack = file.pack] \in Connections
        /\ [Idle EXCEPT !.pc = "download", !.key = key] \in Connections
    BY <2>1
  <2> QED BY <1>1, <2>2, <2>3 DEF Load
<1>2. ASSUME NEW c \in Programs, storeResourcePack(c) PROVE CacheInv'
  <2>1. ASSUME NEW pack \in Packs, NEW next \in {"create", "done"},
               program' = [program EXCEPT ![c].pc = next, ![c].pack = pack]
        PROVE  /\ program' \in [Programs -> Connections]
               /\ program'[c].pc = next /\ program'[c].pack = pack
               /\ program'[c].key = program[c].key
               /\ \A d \in Programs \ {c} : program'[d] = program[d]
    BY <2>1, ZenonT(60)
  <2>2. program[c].key \in Packs
    BY <1>2 DEF storeResourcePack
  <2>3. CASE program' = [program EXCEPT ![c].pc = "create", ![c].pack = program[c].key]
    BY <1>2, <2>1, <2>2, <2>3, ZenonT(60) DEF storeResourcePack
  <2>4. ASSUME NEW pack \in Packs \ {program[c].key},
               program' = [program EXCEPT ![c].pc = "done", ![c].pack = pack]
        PROVE  CacheInv'
    <3>1. program' \in [Programs -> Connections] /\ program'[c].pc = "done"
          /\ \A d \in Programs \ {c} : program'[d] = program[d]
      BY <2>1, <2>4
    <3> QED BY <1>2, <3>1 DEF storeResourcePack
  <2> QED BY <1>2, <2>3, <2>4 DEF storeResourcePack, Matches
<1>3. ASSUME NEW c \in Programs, CreateTemp(c) PROVE CacheInv'
  BY <1>3 DEF CreateTemp, Torn
<1>4. ASSUME NEW c \in Programs, Copy(c) PROVE CacheInv'
  BY <1>4, SMTT(40) DEF Copy, Whole
<1>5. ASSUME NEW c \in Programs, Rename(c) PROVE CacheInv'
  BY <1>5 DEF Rename
<1>6. ASSUME NEW c \in Programs, Finish(c) \/ Kill(c) PROVE CacheInv'
  <2>1. Idle \in Connections /\ program' = [program EXCEPT ![c] = Idle] /\ file' = file
    BY <1>6 DEF Finish, Kill
  <2> QED BY <2>1
<1>7. CASE Sync
  BY <1>7 DEF Sync
<1>8. CASE PowerLoss
  BY <1>8 DEF PowerLoss, Torn
<1>9. CASE UNCHANGED cacheVars
  BY <1>9 DEF cacheVars
<1> QED BY <1>1, <1>2, <1>3, <1>4, <1>5, <1>6, <1>7, <1>8, <1>9 DEF CacheNext, Store

(* No step of a program leaves half a pack under the final name: Store     *)
(* renames a file that is whole, and every early return leaves the final   *)
(* name alone.                                                             *)
THEOREM StoreIsAtomic == CacheSpec => FilesWhole
<1>1. CacheInv /\ [CacheNext]_cacheVars => [file'.whole \/ file' = file \/ PowerLoss]_cacheVars
  BY DEF CacheInv, CacheNext, Load, Store, storeResourcePack, CreateTemp, Copy, Rename,
         Finish, Kill, Sync
<1> QED BY <1>1, CacheInitInv, CacheInductive, PTL DEF CacheSpec, FilesWhole

(* What a program stores is the pack it was asked for, whatever pack of    *)
(* the same file name the others store meanwhile and whatever it           *)
(* downloaded.                                                             *)
THEOREM StoredAsAsked ==
  CacheSpec =>
    [][\A c \in Programs : Rename(c) /\ file' # file => file' = Whole(program[c].key)]_cacheVars
<1>1. CacheInv /\ [CacheNext]_cacheVars =>
        [\A c \in Programs : Rename(c) /\ file' # file => file' = Whole(program[c].key)]_cacheVars
  BY DEF CacheInv, Connections, Files, Rename, Whole
<1> QED BY <1>1, CacheInitInv, CacheInductive, PTL DEF CacheSpec
==============================================================================
