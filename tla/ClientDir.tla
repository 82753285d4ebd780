----------------------------- MODULE ClientDir -----------------------------
(***************************************************************************)
(* The client directory: `nexus-client init` writes node_key, wallet.json  *)
(* and config.toml in this order (cmd_init in src/src/main.rs), each with  *)
(* write_new_secure (src/src/keys.rs 40-52): create exclusively, write,    *)
(* fsync.  Every other command reads the files it needs one by one.  Inits *)
(* may race, be killed, or lose power between any two system calls; a write*)
(* may fail; the user may start over by removing the whole directory.      *)
(*                                                                         *)
(* The fsync of a file puts its content on disk, and nothing more: no code *)
(* syncs the directory, nor the one create_dir_all makes it in, so that the*)
(* entry of a file gets there when the kernel writes it back.  Entries are *)
(* taken to reach the disk in the order they were made in, the directory's *)
(* own first, as a journal orders them.                                    *)
(*                                                                         *)
(* A file's content is the init that wrote it: its random node key, its    *)
(* wallet (generated or imported) and the --model it was given.  An empty  *)
(* file stands for every strict prefix of the content.                     *)
(***************************************************************************)
EXTENDS Naturals, Sequences, FiniteSets

CONSTANTS
  Inits,     \* runs of `init`
  Readers,   \* runs of the other commands
  NoFile,    \* the file does not exist
  NoOne      \* the defaults of an empty config.toml; nothing loaded yet

Files == {"node_key", "wallet.json", "config.toml"}
\* cmd_init's order.
FileAfter(f) == CASE f = "node_key"    -> "wallet.json"
                  [] f = "wallet.json" -> "config.toml"

\* What each command reads, in its order, once node_key is there.
status_loads   == <<"config.toml", "node_key">>
earnings_loads == <<"config.toml", "node_key", "wallet.json">>
stake_loads    == <<"config.toml", "node_key", "wallet.json">>
start_loads    == <<"config.toml", "node_key", "wallet.json">>
work_loads     == <<"config.toml", "wallet.json">>

Loads == { status_loads, earnings_loads, stake_loads, start_loads, work_loads }

File == [by : Inits, part : {"empty", "full"}, synced : BOOLEAN]

ASSUME DirAssumption == NoOne \notin Inits /\ NoFile \notin File

VARIABLES
  file,    \* file[f]: a File or NoFile
  onDisk,  \* the files whose directory entries are on disk
  pc,      \* pc[i]: where init i stands
  writing, \* writing[i]: the file it is at
  rpc,     \* rpc[r]: where reader r stands
  todo,    \* todo[r]: the files it has yet to read
  loaded   \* loaded[r]: whose config, key and wallet it holds

readVars == <<rpc, todo, loaded>>
vars == <<file, onDisk, pc, writing, rpc, todo, loaded>>

InitActive == {"resolve", "create", "write", "sync", "readBack"}
ReadActive == {"loading", "running"}

TypeOK ==
  /\ file \in [Files -> File \union {NoFile}]
  /\ onDisk \subseteq Files
  /\ pc \in [Inits -> {"idle", "ok", "failed", "refused", "killed", "erased",
                       "lost"} \union InitActive]
  /\ writing \in [Inits -> Files]
  /\ \A i \in Inits : pc[i] \in {"readBack", "ok"} => writing[i] = "config.toml"
  /\ rpc \in [Readers -> {"idle", "failed", "killed"} \union ReadActive]
  /\ todo \in [Readers -> Seq(Files)]
  /\ loaded \in [Readers -> [Files -> Inits \union {NoOne}]]

Init ==
  /\ file = [f \in Files |-> NoFile]
  /\ onDisk = {}
  /\ pc = [i \in Inits |-> "idle"]
  /\ writing = [i \in Inits |-> "node_key"]
  /\ rpc = [r \in Readers |-> "idle"]
  /\ todo = [r \in Readers |-> << >>]
  /\ loaded = [r \in Readers |-> [f \in Files |-> NoOne]]

\* A file just created, before the content that NodeKey::save, save_wallet or
\* Config::save has for it.
NewFile(i) == [by |-> i, part |-> "empty", synced |-> FALSE]

Goto(i, l) == pc' = [pc EXCEPT ![i] = l]
Exists(f) == file[f] # NoFile
Full(f) == Exists(f) /\ file[f].part = "full"

-----------------------------------------------------------------------------
\* node_key_exists: refuse an initialized directory.
Check(i) ==
  /\ pc[i] = "idle"
  /\ Goto(i, IF Exists("node_key") THEN "refused" ELSE "resolve")
  /\ UNCHANGED <<file, writing, readVars>>

\* generate_wallet, or import_wallet_from, which refuses all but 64 bytes that
\* are a keypair; nothing is on disk yet.  Then create_dir_all.
WalletResolved == {"create", "failed"}

Resolve(i) ==
  /\ pc[i] = "resolve"
  /\ \E l \in WalletResolved : Goto(i, l)
  /\ UNCHANGED <<file, writing, readVars>>

\* Mutants of Create: an existing file is truncated; it is taken for one's own.
CreateTruncates(i) ==
  /\ pc[i] = "create"
  /\ file' = [file EXCEPT ![writing[i]] = NewFile(i)]
  /\ Goto(i, "write")
  /\ UNCHANGED <<writing, readVars>>

CreateAcceptsExisting(i) ==
  /\ pc[i] = "create"
  /\ IF Exists(writing[i])
     THEN UNCHANGED file /\ Goto(i, "sync")
     ELSE /\ file' = [file EXCEPT ![writing[i]] = NewFile(i)]
          /\ Goto(i, "write")
  /\ UNCHANGED <<writing, readVars>>

\* write_new_secure: create_new(true) fails on an existing file.
Create(i) ==
  /\ pc[i] = "create"
  /\ IF Exists(writing[i])
     THEN Goto(i, "failed") /\ UNCHANGED file
     ELSE /\ file' = [file EXCEPT ![writing[i]] = NewFile(i)]
          /\ Goto(i, "write")
  /\ UNCHANGED <<writing, readVars>>

Write(i) ==
  /\ pc[i] = "write"
  /\ file' = [file EXCEPT ![writing[i]].part = "full"]
  /\ Goto(i, "sync")
  /\ UNCHANGED <<writing, readVars>>

\* Mutants of Sync: the config is not synced; the wallet is read back too
\* early.
SyncKeysOnly(i) ==
  /\ pc[i] = "sync"
  /\ file' = [file EXCEPT ![writing[i]].synced = writing[i] # "config.toml"]
  /\ IF writing[i] = "config.toml" THEN Goto(i, "ok") /\ UNCHANGED writing
     ELSE /\ writing' = [writing EXCEPT ![i] = FileAfter(@)]
          /\ Goto(i, IF writing[i] = "wallet.json" THEN "readBack" ELSE "create")
  /\ UNCHANGED readVars

SyncReadsBackEarly(i) ==
  /\ pc[i] = "sync"
  /\ file' = [file EXCEPT ![writing[i]].synced = TRUE]
  /\ IF writing[i] = "config.toml" THEN Goto(i, "ok") /\ UNCHANGED writing
     ELSE /\ writing' = [writing EXCEPT ![i] = FileAfter(@)]
          /\ Goto(i, IF writing[i] = "node_key" THEN "readBack" ELSE "create")
  /\ UNCHANGED readVars

Sync(i) ==
  /\ pc[i] = "sync"
  /\ file' = [file EXCEPT ![writing[i]].synced = TRUE]
  /\ IF writing[i] = "config.toml" THEN Goto(i, "ok") /\ UNCHANGED writing
     ELSE /\ writing' = [writing EXCEPT ![i] = FileAfter(@)]
          /\ Goto(i, IF writing[i] = "wallet.json" THEN "readBack" ELSE "create")
  /\ UNCHANGED readVars

\* load_wallet_pubkey reads the wallet back before the config is written.
ReadBack(i) ==
  /\ pc[i] = "readBack"
  /\ Goto(i, IF Full("wallet.json") THEN "create" ELSE "failed")
  /\ UNCHANGED <<file, writing, readVars>>

\* A system call fails: no space, no permission, an I/O error.
CallFails(i) ==
  /\ pc[i] \in InitActive
  /\ Goto(i, "failed")
  /\ UNCHANGED <<file, writing, readVars>>

-----------------------------------------------------------------------------
\* The dispatch of a command, up to its check for node_key.
Open(r) ==
  /\ rpc[r] = "idle"
  /\ IF Exists("node_key")
     THEN rpc' = [rpc EXCEPT ![r] = "loading"] /\ \E l \in Loads : todo' = [todo EXCEPT ![r] = l]
     ELSE rpc' = [rpc EXCEPT ![r] = "failed"] /\ UNCHANGED todo
  /\ UNCHANGED <<file, pc, writing, loaded>>

\* What reading a file yields, if it yields anything.  A key is whole or it is
\* refused by its length; every entry of the config has a default, so that an
\* empty file is a valid config, while a torn one may not parse.
NodeKey_load == IF Full("node_key") THEN {file["node_key"].by} ELSE {}
load_wallet == IF Full("wallet.json") THEN {file["wallet.json"].by} ELSE {}
Config_load ==
  CASE ~ Exists("config.toml") -> {}
    [] Full("config.toml")     -> {file["config.toml"].by}
    [] OTHER                   -> {NoOne}

Load(f) ==
  CASE f = "config.toml" -> Config_load
    [] f = "node_key"    -> NodeKey_load
    [] f = "wallet.json" -> load_wallet

Read(r) ==
  /\ rpc[r] = "loading"
  /\ \E who \in Load(Head(todo[r])) :
       loaded' = [loaded EXCEPT ![r][Head(todo[r])] = who]
  /\ todo' = [todo EXCEPT ![r] = Tail(@)]
  /\ rpc' = [rpc EXCEPT ![r] = IF Tail(todo[r]) = << >> THEN "running" ELSE @]
  /\ UNCHANGED <<file, pc, writing>>

ReadFails(r) ==
  /\ rpc[r] = "loading"
  /\ ~ Full(Head(todo[r]))
  /\ rpc' = [rpc EXCEPT ![r] = "failed"]
  /\ UNCHANGED <<file, pc, writing, todo, loaded>>

-----------------------------------------------------------------------------
\* A process is killed: what it wrote stays in the page cache.
Kill(i) ==
  /\ pc[i] \in InitActive
  /\ Goto(i, "killed")
  /\ UNCHANGED <<file, writing, readVars>>

\* The kernel writes the entries of the directory back, in its own time.
WriteBack ==
  /\ onDisk' = {f \in Files : Exists(f)}
  /\ UNCHANGED <<file, pc, writing, readVars>>

\* What may be left of the directory: what is on disk, and of the entries made
\* since then the first ones.
Kept == {files \in SUBSET Files :
           /\ \A f \in onDisk : f \in files
           /\ \A f \in files : Exists(f)
           /\ \A f \in Files \ {"config.toml"} : FileAfter(f) \in files => f \in files}

\* Power is lost: the content of a file that was not synced may be gone, and a
\* synced file is gone with its entry.
PowerLoss ==
  /\ \/ \E i \in Inits : pc[i] \in InitActive
     \/ \E r \in Readers : rpc[r] = "loading"
     \/ \E f \in Files : Exists(f) /\ ~ (file[f].synced /\ f \in onDisk)
  /\ \E kept \in Kept, emptied \in SUBSET Files :
       /\ file' = [f \in Files |->
                    IF f \notin kept THEN NoFile
                    ELSE IF file[f].synced \/ f \notin emptied THEN file[f]
                    ELSE [file[f] EXCEPT !.part = "empty"]]
       /\ onDisk' = kept
       /\ pc' = [i \in Inits |-> CASE pc[i] \in InitActive -> "killed"
                                  [] pc[i] = "ok" /\ kept # Files -> "lost"
                                  [] OTHER -> pc[i]]
  /\ rpc' = [r \in Readers |->
               IF rpc[r] \in ReadActive THEN "killed" ELSE rpc[r]]
  /\ UNCHANGED <<writing, todo, loaded>>

\* The user starts over with the whole directory, while nothing runs.
RemoveDir ==
  /\ \E f \in Files : Exists(f)
  /\ \A i \in Inits : pc[i] \notin InitActive
  /\ \A r \in Readers : rpc[r] \notin ReadActive
  /\ file' = [f \in Files |-> NoFile]
  /\ onDisk' = {}
  /\ pc' = [i \in Inits |-> IF pc[i] = "ok" THEN "erased" ELSE pc[i]]
  /\ UNCHANGED <<writing, readVars>>

\* No process writes entries back itself.
InitStep(i) ==
  /\ \/ Check(i) \/ Resolve(i) \/ Create(i) \/ Write(i) \/ Sync(i) \/ ReadBack(i)
     \/ CallFails(i) \/ Kill(i)
  /\ UNCHANGED onDisk
ReadStep(r) ==
  /\ Open(r) \/ Read(r) \/ ReadFails(r)
  /\ UNCHANGED onDisk

Next ==
  \/ \E i \in Inits : InitStep(i)
  \/ \E r \in Readers : ReadStep(r)
  \/ WriteBack
  \/ PowerLoss
  \/ RemoveDir

Spec == Init /\ [][Next]_vars

-----------------------------------------------------------------------------
(***************************************************************************)
(* When init has reported success, its three files are there, whole and    *)
(* their contents on disk, and no other init, kill or failure changes them.*)
(* A loss of power may take them, the last first, until the entries of the *)
(* directory have been written back: but never leaves one of them torn     *)
(* (main.rs 657-717, keys.rs 30-52).                                       *)
(***************************************************************************)
SuccessIsNeverTorn ==
  \A i \in Inits :
    /\ pc[i] = "ok" =>
         \A f \in Files : file[f] = [by |-> i, part |-> "full", synced |-> TRUE]
    /\ pc[i] = "lost" =>
         \A f \in Files : Exists(f) /\ file[f].by = i => Full(f) /\ file[f].synced

(***************************************************************************)
(* Two inits never mix their files: whatever is in the directory was       *)
(* written by one of them, and in cmd_init's order (main.rs 685-711; the   *)
(* check of line 660 alone would not do).                                  *)
(***************************************************************************)
OneWriter ==
  /\ \A f, g \in Files : Exists(f) /\ Exists(g) => file[f].by = file[g].by
  /\ Exists("wallet.json") => Full("node_key") /\ file["node_key"].synced
  /\ Exists("config.toml") => Full("wallet.json") /\ file["wallet.json"].synced

(***************************************************************************)
(* NX-8: a key that is whole is never written again: a file only changes   *)
(* from absent to empty to whole, unless the power or the user takes it    *)
(* (keys.rs 33-35).                                                        *)
(***************************************************************************)
NeverOverwritten ==
  [][\A f \in Files :
       Exists(f) /\ file'[f] # NoFile =>
         /\ file'[f].by = file[f].by
         /\ Full(f) /\ file[f].synced => file'[f] = file[f]]_vars

(***************************************************************************)
(* A command that got past its loads acts for one identity: whatever it has*)
(* read was written by the same init, even when it raced with it; only a   *)
(* config still being written counts as the defaults (main.rs 158-200,     *)
(* 240-266, 370-391, 507-533, 571-590, 720-740).                           *)
(***************************************************************************)
OneIdentity ==
  \A r \in Readers : rpc[r] = "running" =>
    LET got == {loaded[r][f] : f \in Files} \ {NoOne}
    IN  \E i \in Inits : got = {i}

\* The directory as its users see it.
Owner == IF Exists("node_key") THEN file["node_key"].by ELSE NoOne
Stage ==
  CASE ~ Exists("node_key") -> "absent"
    [] \A f \in Files : Full(f) /\ file[f].synced ->
         IF onDisk = Files THEN "safe" ELSE "whole"
    [] OTHER -> "partial"
Serves ==
  [r \in Readers |->
     IF rpc[r] # "running" THEN NoOne
     ELSE IF loaded[r]["wallet.json"] # NoOne THEN loaded[r]["wallet.json"]
     ELSE loaded[r]["node_key"]]

Promise == INSTANCE Directory WITH owner <- Owner, stage <- Stage, serves <- Serves

(***************************************************************************)
(* The three files behave as one directory with one owner: only power takes*)
(* back what is whole, and nothing but the user what is on disk as a whole;*)
(* it never changes hands but by way of nothing, and a command acts for the*)
(* owner of the moment (main.rs 657-717, keys.rs 30-52).                   *)
(***************************************************************************)
ImplementsDirectory == Promise!Spec
=============================================================================
