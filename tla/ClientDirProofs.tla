-------------------------- MODULE ClientDirProofs --------------------------
(***************************************************************************)
(* The client directory has one writer, is never torn once init has        *)
(* reported success, and shows every command one identity: for any number  *)
(* of inits and commands.                                                  *)
(***************************************************************************)
EXTENDS ClientDir, TLAPS

Keys == {"node_key", "wallet.json"}

Done(i, f) == file[f] = [by |-> i, part |-> "full", synced |-> TRUE]

\* The init that has created node_key, until it ends.
Holds(i) ==
  \/ pc[i] \in {"write", "sync", "readBack", "ok"}
  \/ pc[i] = "create" /\ writing[i] # "node_key"

\* It finds its earlier files done, the file it is at as it left it, and the
\* later files absent.
HoldInv ==
  \A i \in Inits :
    /\ pc[i] \in {"idle", "resolve"} => writing[i] = "node_key"
    /\ Holds(i) =>
         /\ writing[i] = "node_key" =>
              file["wallet.json"] = NoFile /\ file["config.toml"] = NoFile
         /\ writing[i] = "wallet.json" =>
              Done(i, "node_key") /\ file["config.toml"] = NoFile
         /\ writing[i] = "config.toml" =>
              Done(i, "node_key") /\ Done(i, "wallet.json")
         /\ pc[i] \in {"create", "readBack"} => file[writing[i]] = NoFile
         /\ pc[i] = "write" => file[writing[i]] = NewFile(i)
         /\ pc[i] = "sync" =>
              file[writing[i]] = [by |-> i, part |-> "full", synced |-> FALSE]
         /\ pc[i] = "ok" => Done(i, "config.toml")

\* What a command has read so far is the owner's; it will have read a key.
ReadInv ==
  \A r \in Readers :
    /\ rpc[r] = "idle" => \A f \in Files : loaded[r][f] = NoOne
    /\ rpc[r] \in ReadActive =>
         /\ Exists("node_key")
         /\ \A f \in Files : loaded[r][f] \in {NoOne, file["node_key"].by}
    /\ rpc[r] = "loading" =>
         /\ todo[r] # << >>
         /\ \/ \E k \in Keys : loaded[r][k] # NoOne
            \/ \E n \in 1..Len(todo[r]) : todo[r][n] \in Keys
    /\ rpc[r] = "running" => \E k \in Keys : loaded[r][k] # NoOne

Inv == TypeOK /\ OneWriter /\ HoldInv /\ ReadInv

\* Of the files that power has left of a reported success.
LostInv ==
  \A i \in Inits : pc[i] = "lost" =>
    \A f \in Files : Exists(f) /\ file[f].by = i => Full(f) /\ file[f].synced

-----------------------------------------------------------------------------
LEMMA FileFacts ==
  /\ \A i \in Inits : /\ NewFile(i) \in File /\ NewFile(i).by = i
                      /\ NewFile(i).part = "empty" /\ NewFile(i).synced = FALSE
  /\ \A g \in File : /\ g # NoFile /\ g.by \in Inits /\ g.by # NoOne
                     /\ g.part \in {"empty", "full"} /\ g.synced \in BOOLEAN
                     /\ g = [by |-> g.by, part |-> g.part, synced |-> g.synced]
BY DirAssumption DEF NewFile, File

LEMMA ExceptFacts ==
  ASSUME NEW g \in File
  PROVE  /\ [g EXCEPT !.part = "full"] = [by |-> g.by, part |-> "full", synced |-> g.synced]
         /\ [g EXCEPT !.part = "empty"] = [by |-> g.by, part |-> "empty", synced |-> g.synced]
         /\ [g EXCEPT !.synced = TRUE] = [by |-> g.by, part |-> g.part, synced |-> TRUE]
<1>1. ASSUME NEW p, NEW P, NEW Q, NEW S, g \in [by : S, part : P, synced : Q]
      PROVE  /\ [g EXCEPT !.part = p] = [by |-> g.by, part |-> p, synced |-> g.synced]
             /\ [g EXCEPT !.synced = p] = [by |-> g.by, part |-> g.part, synced |-> p]
  BY <1>1
<1>2. g \in [by : Inits, part : {"empty", "full"}, synced : BOOLEAN]
  BY DEF File
<1> QED BY <1>1, <1>2

LEMMA DoneFacts ==
  ASSUME NEW i \in Inits, NEW f, Done(i, f)
  PROVE  /\ file[f] \in File /\ file[f] # NoFile /\ file[f].by = i
         /\ file[f].part = "full" /\ file[f].synced
<1>1. [by |-> i, part |-> "full", synced |-> TRUE] \in File
  BY DEF File
<1>2. file[f] # NoFile
  BY <1>1, DirAssumption DEF Done
<1> QED BY <1>1, <1>2 DEF Done

LEMMA LoadsFacts ==
  \A l \in Loads : /\ l \in Seq(Files) /\ l # << >>
                   /\ \E n \in 1..Len(l) : l[n] \in Keys
<1>1. /\ status_loads \in Seq(Files) /\ Len(status_loads) = 2
      /\ status_loads[2] \in Keys
  BY DEF status_loads, Files, Keys
<1>2. /\ earnings_loads \in Seq(Files) /\ Len(earnings_loads) = 3
      /\ earnings_loads[2] \in Keys
  BY DEF earnings_loads, Files, Keys
<1>3. /\ stake_loads \in Seq(Files) /\ Len(stake_loads) = 3
      /\ stake_loads[2] \in Keys
  BY DEF stake_loads, Files, Keys
<1>4. /\ start_loads \in Seq(Files) /\ Len(start_loads) = 3
      /\ start_loads[2] \in Keys
  BY DEF start_loads, Files, Keys
<1>5. /\ work_loads \in Seq(Files) /\ Len(work_loads) = 2
      /\ work_loads[2] \in Keys
  BY DEF work_loads, Files, Keys
<1>6. ASSUME NEW l \in Seq(Files), Len(l) \in {2, 3}, l[2] \in Keys
      PROVE  l # << >> /\ \E n \in 1..Len(l) : l[n] \in Keys
  BY <1>6
<1> QED BY <1>1, <1>2, <1>3, <1>4, <1>5, <1>6 DEF Loads

LEMMA InitInv == Init => Inv
BY LoadsFacts
DEF Init, Inv, TypeOK, OneWriter, HoldInv, ReadInv, Holds, Exists, Files, Keys,
    InitActive, ReadActive

-----------------------------------------------------------------------------
\* Steps of an init that leave the files alone.
LEMMA QuietStep ==
  ASSUME Inv, NEW i \in Inits,
         Check(i) \/ Resolve(i) \/ ReadBack(i) \/ CallFails(i) \/ Kill(i),
         UNCHANGED onDisk
  PROVE  Inv'
<1>1. /\ UNCHANGED <<file, writing, rpc, todo, loaded>>
      /\ \E l \in {"refused", "resolve", "create", "failed", "killed"} :
           /\ pc' = [pc EXCEPT ![i] = l]
           /\ l = "resolve" => pc[i] = "idle"
           /\ l = "create" => pc[i] \in {"resolve", "readBack"}
  BY DEF Check, Resolve, WalletResolved, ReadBack, CallFails, Kill, Goto, readVars
<1>2. TypeOK'
  BY <1>1 DEF Inv, TypeOK, InitActive, ReadActive
<1>3. OneWriter' /\ ReadInv'
  BY <1>1 DEF Inv, OneWriter, ReadInv, Exists, Full
<1>4. HoldInv'
  BY <1>1 DEF Inv, TypeOK, HoldInv, Holds, Done, NewFile
<1> QED BY <1>2, <1>3, <1>4 DEF Inv

\* Two inits never hold the directory at once.
LEMMA OneHolder ==
  ASSUME Inv, NEW i \in Inits, NEW j \in Inits, Holds(i), Holds(j)
  PROVE  /\ i = j
         /\ file["node_key"] \in File /\ file["node_key"].by = i
<1>1. ASSUME NEW k \in Inits, Holds(k)
      PROVE  file["node_key"] \in File /\ file["node_key"].by = k
  <2>1. \/ file["node_key"] = NewFile(k)
        \/ file["node_key"] = [by |-> k, part |-> "full", synced |-> FALSE]
        \/ Done(k, "node_key")
    BY <1>1 DEF Inv, TypeOK, HoldInv, Holds, Done, Files
  <2>2. NewFile(k) \in File /\ NewFile(k).by = k
    BY FileFacts
  <2>3. ASSUME NEW b \in BOOLEAN
        PROVE  LET g == [by |-> k, part |-> "full", synced |-> b]
               IN  g \in File /\ g.by = k
    BY DEF File
  <2>4. CASE file["node_key"] = NewFile(k)
    BY <2>2, <2>4
  <2>5. CASE file["node_key"] = [by |-> k, part |-> "full", synced |-> FALSE]
    BY <2>3, <2>5
  <2>6. CASE Done(k, "node_key")
    BY <2>3, <2>6 DEF Done
  <2> QED BY <2>1, <2>4, <2>5, <2>6
<1> QED BY <1>1

LEMMA CreateStep ==
  ASSUME Inv, NEW i \in Inits, Create(i), UNCHANGED onDisk
  PROVE  Inv'
<1>1. CASE Exists(writing[i])
  <2>1. /\ UNCHANGED <<file, writing, rpc, todo, loaded>>
        /\ pc' = [pc EXCEPT ![i] = "failed"]
    BY <1>1 DEF Create, Goto, readVars
  <2> QED BY <2>1
    DEF Inv, TypeOK, InitActive, ReadActive, OneWriter, ReadInv, Exists, Full,
        HoldInv, Holds, Done, NewFile
<1>2. CASE ~ Exists(writing[i])
  <2>1. /\ pc[i] = "create" /\ pc' = [pc EXCEPT ![i] = "write"]
        /\ file' = [file EXCEPT ![writing[i]] = NewFile(i)]
        /\ file[writing[i]] = NoFile /\ writing[i] \in Files
        /\ UNCHANGED <<writing, rpc, todo, loaded>>
    BY <1>2 DEF Create, Goto, readVars, Exists, Inv, TypeOK
  <2>2. TypeOK'
    BY <2>1, FileFacts DEF Inv, TypeOK, InitActive, ReadActive
  <2>3. ASSUME NEW j \in Inits, Holds(j) PROVE j = i
    <3>1. CASE writing[i] = "node_key"
      BY <2>1, <2>3, <3>1, OneHolder, FileFacts
    <3>2. CASE writing[i] # "node_key"
      BY <2>1, <2>3, <3>2, OneHolder DEF Holds
    <3> QED BY <3>1, <3>2
  <2>4. /\ writing[i] = "node_key" =>
             file["wallet.json"] = NoFile /\ file["config.toml"] = NoFile
        /\ writing[i] = "wallet.json" =>
             Done(i, "node_key") /\ file["config.toml"] = NoFile
        /\ writing[i] = "config.toml" =>
             Done(i, "node_key") /\ Done(i, "wallet.json")
    <3>1. CASE writing[i] = "node_key"
      BY <2>1, <3>1 DEF Inv, OneWriter, Exists, Full, Files
    <3>2. CASE writing[i] # "node_key"
      BY <2>1, <3>2 DEF Inv, HoldInv, Holds
    <3> QED BY <3>1, <3>2
  <2>5. OneWriter'
    <3>1. \A f \in Files : file'[f] = IF f = writing[i] THEN NewFile(i) ELSE file[f]
      BY <2>1 DEF Inv, TypeOK
    <3>2. /\ NewFile(i) # NoFile /\ NewFile(i).by = i
          /\ \A f \in Keys : Done(i, f) => /\ file[f] # NoFile /\ file[f].by = i
                                         /\ file[f].part = "full" /\ file[f].synced
      BY FileFacts, DoneFacts DEF Keys
    <3>3. CASE writing[i] = "node_key"
      BY <2>4, <3>1, <3>2, <3>3 DEF OneWriter, Exists, Full, Files
    <3>4. CASE writing[i] = "wallet.json"
      BY <2>4, <3>1, <3>2, <3>4 DEF OneWriter, Exists, Full, Files, Keys
    <3>5. CASE writing[i] = "config.toml"
      BY <2>4, <3>1, <3>2, <3>5 DEF OneWriter, Exists, Full, Files, Keys
    <3> QED BY <2>1, <3>3, <3>4, <3>5 DEF Files
  <2>6. HoldInv'
    <3>1. ASSUME NEW j \in Inits, j # i PROVE ~ Holds(j)'
      BY <2>1, <2>3, <3>1 DEF Inv, TypeOK, Holds
    <3>2. ASSUME NEW j \in Inits PROVE pc'[j] \in {"idle", "resolve"} => writing'[j] = "node_key"
      BY <2>1 DEF Inv, TypeOK, HoldInv
    <3>3. /\ pc'[i] = "write" /\ file'[writing'[i]] = NewFile(i)
          /\ \A f \in Files : f # writing[i] => file'[f] = file[f]
      BY <2>1 DEF Inv, TypeOK
    <3> QED BY <2>1, <2>4, <3>1, <3>2, <3>3 DEF HoldInv, Done, NewFile, Files
  <2>7. ReadInv'
    BY <2>1, FileFacts DEF Inv, TypeOK, ReadInv, Exists, ReadActive, Files
  <2> QED BY <2>2, <2>5, <2>6, <2>7 DEF Inv
<1> QED BY <1>1, <1>2
LEMMA ReadKept ==
  ASSUME Inv, UNCHANGED <<rpc, todo, loaded>>,
         Exists("node_key") =>
           file'["node_key"] # NoFile /\ file'["node_key"].by = file["node_key"].by
  PROVE  ReadInv'
BY DEF Inv, ReadInv, Exists, ReadActive

\* What a step of the holder does to the file it is at, and to no other.
LEMMA WriteEffect ==
  ASSUME Inv, NEW i \in Inits, Write(i)
  PROVE  /\ pc[i] = "write" /\ Holds(i)
         /\ writing[i] \in Files /\ file[writing[i]] = NewFile(i)
         /\ pc' = [pc EXCEPT ![i] = "sync"]
         /\ UNCHANGED <<writing, rpc, todo, loaded>>
         /\ \A f \in Files :
              file'[f] = IF f = writing[i]
                         THEN [by |-> i, part |-> "full", synced |-> FALSE] ELSE file[f]
         /\ file' = [f \in Files |-> file'[f]]
<1> DEFINE w == writing[i]
           New == [by |-> i, part |-> "full", synced |-> FALSE]
<1>1. /\ pc[i] = "write" /\ Holds(i) /\ w \in Files /\ file[w] = NewFile(i)
      /\ pc' = [pc EXCEPT ![i] = "sync"]
      /\ UNCHANGED <<writing, rpc, todo, loaded>>
      /\ file' = [file EXCEPT ![w].part = "full"]
  BY DEF Write, Goto, readVars, Holds, Inv, HoldInv, TypeOK
<1>2. \A f \in Files : file'[f] = IF f = w THEN New ELSE file[f]
  <2>1. [NewFile(i) EXCEPT !.part = "full"] = New
    <3>1. NewFile(i) \in File /\ NewFile(i).by = i /\ NewFile(i).synced = FALSE
      BY FileFacts
    <3> QED BY <3>1, ExceptFacts
  <2>2. \A f \in Files :
          file'[f] = IF f = w THEN [file[w] EXCEPT !.part = "full"] ELSE file[f]
    BY <1>1 DEF Inv, TypeOK
  <2> QED BY <1>1, <2>1, <2>2
<1>3. file' = [f \in Files |-> file'[f]]
  BY <1>1 DEF Inv, TypeOK
<1> QED BY <1>1, <1>2, <1>3

LEMMA WriteStep ==
  ASSUME Inv, NEW i \in Inits, Write(i), UNCHANGED onDisk
  PROVE  Inv'
<1> DEFINE w == writing[i]
           New == [by |-> i, part |-> "full", synced |-> FALSE]
<1>1. /\ pc[i] = "write" /\ Holds(i) /\ w \in Files /\ file[w] = NewFile(i)
      /\ pc' = [pc EXCEPT ![i] = "sync"]
      /\ UNCHANGED <<writing, rpc, todo, loaded>>
      /\ file' = [f \in Files |-> file'[f]]
  BY WriteEffect
<1>2. \A f \in Files : file'[f] = IF f = w THEN New ELSE file[f]
  BY WriteEffect
<1>3. /\ New \in File /\ New # NoFile /\ New.by = i /\ New.part = "full"
      /\ NewFile(i) # NoFile /\ NewFile(i).by = i
  <2>1. New \in File
    BY DEF File
  <2>2. New # NoFile
    BY <2>1, DirAssumption
  <2> QED BY <2>1, <2>2, FileFacts
<1> HIDE DEF w, New
<1>4. TypeOK'
  <2>1. file' \in [Files -> File \union {NoFile}]
    BY <1>1, <1>2, <1>3 DEF Inv, TypeOK
  <2> QED BY <1>1, <2>1 DEF Inv, TypeOK, InitActive
<1>5. OneWriter'
  <2>1. \A f \in Files : /\ file'[f] # NoFile <=> file[f] # NoFile
                         /\ file'[f].by = file[f].by
    BY <1>1, <1>2, <1>3
  <2>2. \A f \in Files : f # w => file'[f] = file[f]
    BY <1>2
  <2>3. ~ (file[w] # NoFile /\ file[w].part = "full")
    BY <1>1, FileFacts
  <2>4. file'["node_key"] = file["node_key"] \/ file["wallet.json"] = NoFile
    BY <2>2, <2>3 DEF Inv, OneWriter, Exists, Full, Files
  <2>5. file'["wallet.json"] = file["wallet.json"] \/ file["config.toml"] = NoFile
    BY <2>2, <2>3 DEF Inv, OneWriter, Exists, Full, Files
  <2> QED BY <2>1, <2>4, <2>5 DEF Inv, OneWriter, Exists, Full, Files
<1>6. HoldInv'
  <2>1. ASSUME NEW j \in Inits, j # i PROVE ~ Holds(j)'
    BY <1>1, <2>1, OneHolder DEF Inv, TypeOK, Holds
  <2>2. \A j \in Inits : pc'[j] \in {"idle", "resolve"} => writing'[j] = "node_key"
    BY <1>1 DEF Inv, TypeOK, HoldInv
  <2>3. /\ pc'[i] = "sync" /\ writing'[i] = w
        /\ w = "node_key" =>
             file["wallet.json"] = NoFile /\ file["config.toml"] = NoFile
        /\ w = "wallet.json" =>
             Done(i, "node_key") /\ file["config.toml"] = NoFile
        /\ w = "config.toml" =>
             Done(i, "node_key") /\ Done(i, "wallet.json")
    BY <1>1 DEF w, Inv, TypeOK, HoldInv
  <2> QED BY <1>1, <1>2, <2>1, <2>2, <2>3 DEF HoldInv, Done, New, Files
<1>7. ReadInv'
  BY <1>1, <1>2, <1>3, ReadKept DEF Files, Exists
<1> QED BY <1>4, <1>5, <1>6, <1>7 DEF Inv

LEMMA SyncEffect ==
  ASSUME Inv, NEW i \in Inits, Sync(i)
  PROVE  /\ pc[i] = "sync" /\ Holds(i) /\ writing[i] \in Files
         /\ file[writing[i]] = [by |-> i, part |-> "full", synced |-> FALSE]
         /\ UNCHANGED <<rpc, todo, loaded>>
         /\ \A f \in Files :
              file'[f] = IF f = writing[i]
                         THEN [by |-> i, part |-> "full", synced |-> TRUE] ELSE file[f]
         /\ file' = [f \in Files |-> file'[f]]
<1> DEFINE w == writing[i]
           Old == [by |-> i, part |-> "full", synced |-> FALSE]
           New == [by |-> i, part |-> "full", synced |-> TRUE]
<1>1. /\ pc[i] = "sync" /\ Holds(i) /\ w \in Files /\ file[w] = Old
      /\ file' = [file EXCEPT ![w].synced = TRUE]
      /\ UNCHANGED <<rpc, todo, loaded>>
  BY DEF Sync, readVars, Holds, Inv, HoldInv, TypeOK
<1>2. \A f \in Files : file'[f] = IF f = w THEN New ELSE file[f]
  <2>1. [Old EXCEPT !.synced = TRUE] = New
    <3>1. Old \in File /\ Old.by = i /\ Old.part = "full"
      BY DEF File
    <3> QED BY <3>1, ExceptFacts
  <2>2. \A f \in Files :
          file'[f] = IF f = w THEN [file[w] EXCEPT !.synced = TRUE] ELSE file[f]
    BY <1>1 DEF Inv, TypeOK
  <2> QED BY <1>1, <2>1, <2>2
<1>3. file' = [f \in Files |-> file'[f]]
  BY <1>1 DEF Inv, TypeOK
<1> QED BY <1>1, <1>2, <1>3

LEMMA SyncStep ==
  ASSUME Inv, NEW i \in Inits, Sync(i), UNCHANGED onDisk
  PROVE  Inv'
<1> DEFINE w == writing[i]
           Old == [by |-> i, part |-> "full", synced |-> FALSE]
           New == [by |-> i, part |-> "full", synced |-> TRUE]
<1>1. /\ pc[i] = "sync" /\ Holds(i) /\ w \in Files /\ file[w] = Old
      /\ file' = [f \in Files |-> file'[f]]
      /\ UNCHANGED <<rpc, todo, loaded>>
  BY SyncEffect
<1>2. \/ /\ w = "config.toml" /\ writing' = writing
         /\ pc' = [pc EXCEPT ![i] = "ok"]
      \/ /\ w = "node_key" /\ writing' = [writing EXCEPT ![i] = "wallet.json"]
         /\ pc' = [pc EXCEPT ![i] = "create"]
      \/ /\ w = "wallet.json" /\ writing' = [writing EXCEPT ![i] = "config.toml"]
         /\ pc' = [pc EXCEPT ![i] = "readBack"]
  BY <1>1 DEF Sync, Goto, FileAfter, Files
<1>3. \A f \in Files : file'[f] = IF f = w THEN New ELSE file[f]
  BY SyncEffect
<1>4. /\ New \in File /\ New # NoFile /\ New.by = i /\ New.part = "full" /\ New.synced
      /\ Old # NoFile /\ Old.by = i /\ Old.part = "full" /\ ~ Old.synced
  <2>1. New \in File /\ Old \in File
    BY DEF File
  <2>2. New # NoFile /\ Old # NoFile
    BY <2>1, DirAssumption
  <2> QED BY <2>1, <2>2
<1>5. /\ w = "node_key" =>
           file["wallet.json"] = NoFile /\ file["config.toml"] = NoFile
      /\ w = "wallet.json" =>
           Done(i, "node_key") /\ file["config.toml"] = NoFile
      /\ w = "config.toml" =>
           Done(i, "node_key") /\ Done(i, "wallet.json")
  BY <1>1 DEF Inv, TypeOK, HoldInv
<1> HIDE DEF Old, New
<1>6. TypeOK'
  <2>1. file' \in [Files -> File \union {NoFile}]
    BY <1>1, <1>3, <1>4 DEF Inv, TypeOK
  <2> QED BY <1>1, <1>2, <2>1 DEF Inv, TypeOK, InitActive, Files
<1>7. OneWriter'
  <2>1. \A f \in Files : /\ file'[f] # NoFile <=> file[f] # NoFile
                         /\ file'[f].by = file[f].by /\ file'[f].part = file[f].part
                         /\ file[f].synced => file'[f].synced
    BY <1>1, <1>3, <1>4
  <2> QED BY <2>1 DEF Inv, OneWriter, Exists, Full, Files
<1>8. HoldInv'
  <2>1. ASSUME NEW j \in Inits, j # i PROVE ~ Holds(j)'
    BY <1>1, <1>2, <2>1, OneHolder DEF Inv, TypeOK, Holds
  <2>2. \A j \in Inits : pc'[j] \in {"idle", "resolve"} => writing'[j] = "node_key"
    BY <1>1, <1>2 DEF Inv, TypeOK, HoldInv
  <2>3. CASE w = "config.toml"
    <3>1. pc'[i] = "ok" /\ writing'[i] = "config.toml"
      BY <1>2, <2>3 DEF Inv, TypeOK
    <3> QED BY <1>3, <1>5, <2>1, <2>2, <2>3, <3>1 DEF HoldInv, Done, New, Files
  <2>4. CASE w = "node_key"
    <3>1. pc'[i] = "create" /\ writing'[i] = "wallet.json"
      BY <1>2, <2>4 DEF Inv, TypeOK
    <3> QED BY <1>3, <1>5, <2>1, <2>2, <2>4, <3>1 DEF HoldInv, Done, New, Files
  <2>5. CASE w = "wallet.json"
    <3>1. pc'[i] = "readBack" /\ writing'[i] = "config.toml"
      BY <1>2, <2>5 DEF Inv, TypeOK
    <3> QED BY <1>3, <1>5, <2>1, <2>2, <2>5, <3>1 DEF HoldInv, Done, New, Files
  <2> QED BY <1>2, <2>3, <2>4, <2>5
<1>9. ReadInv'
  BY <1>1, <1>3, <1>4, ReadKept DEF Files, Exists
<1> QED BY <1>6, <1>7, <1>8, <1>9 DEF Inv

-----------------------------------------------------------------------------
LEMMA OpenStep ==
  ASSUME Inv, NEW r \in Readers, Open(r), UNCHANGED onDisk
  PROVE  Inv'
<1>1. /\ rpc[r] = "idle" /\ UNCHANGED <<file, pc, writing, loaded>>
      /\ \/ /\ file["node_key"] # NoFile
            /\ rpc' = [rpc EXCEPT ![r] = "loading"]
            /\ \E l \in Loads : todo' = [todo EXCEPT ![r] = l]
         \/ rpc' = [rpc EXCEPT ![r] = "failed"] /\ UNCHANGED todo
  BY DEF Open, Exists
<1>2. TypeOK'
  BY <1>1, LoadsFacts DEF Inv, TypeOK, ReadActive
<1>3. OneWriter' /\ HoldInv'
  BY <1>1 DEF Inv, OneWriter, HoldInv, Holds, Done, NewFile, Exists, Full
<1>4. ReadInv'
  <2>1. \A q \in Readers : q # r => rpc'[q] = rpc[q] /\ todo'[q] = todo[q]
    BY <1>1 DEF Inv, TypeOK
  <2>2. \A f \in Files : loaded[r][f] = NoOne
    BY <1>1 DEF Inv, ReadInv
  <2>3. \/ /\ file["node_key"] # NoFile
           /\ rpc'[r] = "loading" /\ todo'[r] \in Loads
        \/ rpc'[r] = "failed"
    BY <1>1 DEF Inv, TypeOK
  <2>4. /\ rpc'[r] \in ReadActive => file["node_key"] # NoFile
        /\ rpc'[r] = "loading" =>
             todo'[r] # << >> /\ \E n \in 1..Len(todo'[r]) : todo'[r][n] \in Keys
        /\ rpc'[r] \notin {"idle", "running"}
    BY <2>3, LoadsFacts DEF ReadActive
  <2>5. ASSUME NEW q \in Readers, q # r
        PROVE  /\ rpc'[q] = "idle" => \A f \in Files : loaded'[q][f] = NoOne
               /\ rpc'[q] \in ReadActive =>
                    /\ Exists("node_key")'
                    /\ \A f \in Files : loaded'[q][f] \in {NoOne, file'["node_key"].by}
               /\ rpc'[q] = "loading" =>
                    /\ todo'[q] # << >>
                    /\ \/ \E k \in Keys : loaded'[q][k] # NoOne
                       \/ \E n \in 1..Len(todo'[q]) : todo'[q][n] \in Keys
               /\ rpc'[q] = "running" => \E k \in Keys : loaded'[q][k] # NoOne
    BY <1>1, <2>1, <2>5 DEF Inv, ReadInv, Exists
  <2> QED BY <1>1, <2>2, <2>4, <2>5 DEF ReadInv, Exists
<1> QED BY <1>2, <1>3, <1>4 DEF Inv

\* The first of the files still to read is read: what it yields is the owner's.
LEMMA ReadYields ==
  ASSUME Inv, NEW f \in Files, Exists("node_key"), NEW who \in Load(f)
  PROVE  /\ who \in {NoOne, file["node_key"].by}
         /\ who \in Inits \union {NoOne}
         /\ f \in Keys => who # NoOne
<1>1. \A g \in Files : Exists(g) => /\ file[g] \in File
                                  /\ file[g].by \in Inits /\ file[g].by # NoOne
                                  /\ file[g].by = file["node_key"].by
  <2>1. \A g \in Files : Exists(g) => file[g] \in File
    BY DEF Inv, TypeOK, Exists
  <2>2. \A g \in Files : Exists(g) => file[g].by = file["node_key"].by
    BY DEF Inv, OneWriter, Files
  <2> QED BY <2>1, <2>2, FileFacts
<1>2. \/ Full(f) /\ who = file[f].by
      \/ f = "config.toml" /\ who = NoOne
  <2>1. CASE f = "config.toml"
    <3>1. who \in Config_load
      BY <2>1 DEF Load
    <3> QED BY <2>1, <3>1 DEF Config_load, Exists, Full
  <2>2. CASE f = "node_key"
    <3>1. who \in NodeKey_load
      BY <2>2 DEF Load
    <3>2. Full(f) /\ who = file["node_key"].by
      BY <2>2, <3>1 DEF NodeKey_load
    <3> QED BY <2>2, <3>2
  <2>3. CASE f = "wallet.json"
    <3>1. who \in load_wallet
      BY <2>3 DEF Load
    <3>2. Full(f) /\ who = file["wallet.json"].by
      BY <2>3, <3>1 DEF load_wallet
    <3> QED BY <2>3, <3>2
  <2> QED BY <2>1, <2>2, <2>3 DEF Files
<1> QED BY <1>1, <1>2 DEF Full, Keys

LEMMA ReadStep1 ==
  ASSUME Inv, NEW r \in Readers, Read(r), UNCHANGED onDisk
  PROVE  Inv'
<1> DEFINE f == Head(todo[r])
<1>1. PICK who \in Load(f) : loaded' = [loaded EXCEPT ![r][f] = who]
  BY DEF Read
<1>2. /\ rpc[r] = "loading" /\ UNCHANGED <<file, pc, writing>>
      /\ todo' = [todo EXCEPT ![r] = Tail(todo[r])]
      /\ rpc' = [rpc EXCEPT ![r] = IF Tail(todo[r]) = << >> THEN "running" ELSE rpc[r]]
      /\ todo[r] \in Seq(Files) /\ todo[r] # << >>
  BY DEF Read, Inv, TypeOK, ReadInv
<1>3. f \in Files /\ Tail(todo[r]) \in Seq(Files) /\ f = todo[r][1]
  BY <1>2
<1> HIDE DEF f
<1>4. /\ Exists("node_key")
      /\ who \in {NoOne, file["node_key"].by}
      /\ who \in Inits \union {NoOne}
      /\ f \in Keys => who # NoOne
  BY <1>2, <1>3, ReadYields DEF Inv, ReadInv, ReadActive
<1>5. TypeOK'
  BY <1>1, <1>2, <1>3, <1>4 DEF Inv, TypeOK, ReadActive
<1>6. OneWriter' /\ HoldInv'
  BY <1>2 DEF Inv, OneWriter, HoldInv, Holds, Done, NewFile, Exists, Full
<1>7. /\ \A q \in Readers : q # r => /\ loaded'[q] = loaded[q] /\ rpc'[q] = rpc[q]
                                   /\ todo'[q] = todo[q]
      /\ \A g \in Files : loaded'[r][g] = IF g = f THEN who ELSE loaded[r][g]
      /\ todo'[r] = Tail(todo[r])
      /\ rpc'[r] = IF Tail(todo[r]) = << >> THEN "running" ELSE "loading"
  BY <1>1, <1>2, <1>3 DEF Inv, TypeOK
<1>8. \/ \E k \in Keys : loaded'[r][k] # NoOne
      \/ \E n \in 1..Len(todo'[r]) : todo'[r][n] \in Keys
  <2>1. CASE \E k \in Keys : loaded[r][k] # NoOne
    BY <1>4, <1>7, <2>1 DEF Keys, Files
  <2>2. CASE f \in Keys
    BY <1>3, <1>4, <1>7, <2>2
  <2>3. CASE f \notin Keys /\ \E n \in 1..Len(todo[r]) : todo[r][n] \in Keys
    <3>1. PICK n \in 1..Len(todo[r]) : todo[r][n] \in Keys
      BY <2>3
    <3>2. n # 1
      BY <1>3, <2>3, <3>1
    <3>3. n - 1 \in 1..Len(Tail(todo[r])) /\ Tail(todo[r])[n - 1] = todo[r][n]
      BY <1>2, <3>1, <3>2
    <3> QED BY <1>7, <3>1, <3>3
  <2> QED BY <1>2, <2>1, <2>2, <2>3 DEF Inv, ReadInv
<1>9. ReadInv'
  <2>1. ASSUME NEW q \in Readers, q # r
        PROVE  /\ rpc'[q] = "idle" => \A g \in Files : loaded'[q][g] = NoOne
               /\ rpc'[q] \in ReadActive =>
                    \A g \in Files : loaded'[q][g] \in {NoOne, file["node_key"].by}
               /\ rpc'[q] = "loading" =>
                    /\ todo'[q] # << >>
                    /\ \/ \E k \in Keys : loaded'[q][k] # NoOne
                       \/ \E n \in 1..Len(todo'[q]) : todo'[q][n] \in Keys
               /\ rpc'[q] = "running" => \E k \in Keys : loaded'[q][k] # NoOne
    BY <1>7, <2>1 DEF Inv, ReadInv
  <2>2. \A g \in Files : loaded'[r][g] \in {NoOne, file["node_key"].by}
    BY <1>2, <1>4, <1>7 DEF Inv, ReadInv, ReadActive
  <2>3. /\ rpc'[r] # "idle"
        /\ rpc'[r] = "loading" => todo'[r] # << >>
        /\ rpc'[r] = "running" => \E k \in Keys : loaded'[r][k] # NoOne
    <3>1. CASE Tail(todo[r]) = << >>
      <4>1. todo'[r] = << >> /\ rpc'[r] = "running"
        BY <1>7, <3>1
      <4>2. ~ \E n \in 1..Len(todo'[r]) : todo'[r][n] \in Keys
        BY <4>1
      <4>3. \E k \in Keys : loaded'[r][k] # NoOne
        BY <1>8, <4>2
      <4> QED BY <4>1, <4>3
    <3>2. CASE Tail(todo[r]) # << >>
      <4>1. todo'[r] # << >> /\ rpc'[r] = "loading"
        BY <1>7, <3>2
      <4> QED BY <4>1
    <3> QED BY <3>1, <3>2
  <2> QED BY <1>2, <1>4, <1>8, <2>1, <2>2, <2>3 DEF ReadInv, Exists
<1> QED BY <1>5, <1>6, <1>9 DEF Inv

LEMMA ReadFailsStep ==
  ASSUME Inv, NEW r \in Readers, ReadFails(r), UNCHANGED onDisk
  PROVE  Inv'
<1>1. rpc' = [rpc EXCEPT ![r] = "failed"] /\ UNCHANGED <<file, pc, writing, todo, loaded>>
  BY DEF ReadFails
<1>2. TypeOK' /\ OneWriter' /\ HoldInv'
  BY <1>1 DEF Inv, TypeOK, OneWriter, HoldInv, Holds, Done, NewFile, Exists, Full, ReadActive
<1>3. ReadInv'
  BY <1>1 DEF Inv, TypeOK, ReadInv, Exists, ReadActive
<1> QED BY <1>2, <1>3 DEF Inv

-----------------------------------------------------------------------------
LEMMA WriteBackStep ==
  ASSUME Inv, WriteBack
  PROVE  Inv'
<1>1. UNCHANGED <<file, pc, writing, rpc, todo, loaded>> /\ onDisk' \subseteq Files
  BY DEF WriteBack, readVars
<1> QED BY <1>1 DEF Inv, TypeOK, OneWriter, HoldInv, ReadInv, Holds, Done, Exists, Full,
  NewFile

\* What power can do to a file; the files of an init that holds the directory
\* are hit too, but no such init is left.
Lost(f) ==
  \/ file'[f] = file[f]
  \/ Exists(f) /\ file'[f] = NoFile
  \/ /\ Exists(f) /\ ~ file[f].synced
     /\ file'[f] \in File /\ file'[f].by = file[f].by
     /\ file'[f].part = "empty" /\ file'[f].synced = file[f].synced

LEMMA LossOfAFile ==
  ASSUME TypeOK, PowerLoss, NEW f \in Files
  PROVE  Lost(f) /\ file'[f] \in File \union {NoFile}
<1>1. \/ file'[f] = file[f]
      \/ file'[f] = NoFile
      \/ /\ Exists(f) /\ ~ file[f].synced
         /\ file'[f] = [file[f] EXCEPT !.part = "empty"]
  BY DEF PowerLoss, Kept
<1>2. file[f] \in File \union {NoFile}
  BY DEF TypeOK
<1>3. ASSUME Exists(f), file'[f] = [file[f] EXCEPT !.part = "empty"]
      PROVE  /\ file'[f] \in File /\ file'[f].by = file[f].by
             /\ file'[f].part = "empty" /\ file'[f].synced = file[f].synced
  <2>1. file[f] \in File
    BY <1>2, <1>3 DEF Exists
  <2>2. file'[f] = [by |-> file[f].by, part |-> "empty", synced |-> file[f].synced]
    BY <1>3, <2>1, ExceptFacts
  <2> QED BY <2>1, <2>2, FileFacts DEF File
<1> QED BY <1>1, <1>2, <1>3 DEF Lost, Exists

\* What is left are the first files, and their entries are on disk; an init
\* whose success stands has lost none.
LEMMA LossInOrder ==
  ASSUME TypeOK, PowerLoss
  PROVE  /\ file'["wallet.json"] # NoFile => file'["node_key"] # NoFile
         /\ file'["config.toml"] # NoFile => file'["wallet.json"] # NoFile
         /\ onDisk' \subseteq Files
         /\ onDisk = Files => onDisk' = Files /\ \A f \in Files : file'[f] # NoFile
         /\ (\A f \in Files : file'[f] # NoFile) => onDisk' = Files
         /\ \A i \in Inits :
              /\ pc'[i] \notin InitActive
              /\ pc'[i] = "idle" => pc[i] = "idle"
              /\ pc'[i] = "lost" => pc[i] \in {"lost", "ok"}
              /\ pc'[i] = "ok" => pc[i] = "ok" /\ \A f \in Files : file'[f] # NoFile
         /\ pc' \in [Inits -> {"idle", "ok", "failed", "refused", "killed", "erased",
                               "lost"} \union InitActive]
         /\ file' = [f \in Files |-> file'[f]]
<1>1. PICK kept \in Kept, emptied \in SUBSET Files :
        /\ file' = [f \in Files |->
                     IF f \notin kept THEN NoFile
                     ELSE IF file[f].synced \/ f \notin emptied THEN file[f]
                     ELSE [file[f] EXCEPT !.part = "empty"]]
        /\ onDisk' = kept
        /\ pc' = [i \in Inits |-> CASE pc[i] \in InitActive -> "killed"
                                   [] pc[i] = "ok" /\ kept # Files -> "lost"
                                   [] OTHER -> pc[i]]
  BY DEF PowerLoss
<1>2. /\ kept \subseteq Files
      /\ \A f \in onDisk : f \in kept
      /\ \A f \in kept : file[f] # NoFile
      /\ "wallet.json" \in kept => "node_key" \in kept
      /\ "config.toml" \in kept => "wallet.json" \in kept
  BY DEF Kept, Exists, Files, FileAfter
<1>3. \A f \in Files : file'[f] # NoFile <=> f \in kept
  <2>1. ASSUME NEW f \in Files, f \in kept PROVE file'[f] # NoFile
    <3>1. file[f] \in File /\ file[f] # NoFile
      BY <1>2, <2>1 DEF TypeOK
    <3>2. [file[f] EXCEPT !.part = "empty"] \in File
      BY <3>1, ExceptFacts, FileFacts DEF File
    <3> QED BY <1>1, <2>1, <3>1, <3>2, FileFacts
  <2> QED BY <1>1, <2>1
<1>4. /\ file'["wallet.json"] # NoFile => file'["node_key"] # NoFile
      /\ file'["config.toml"] # NoFile => file'["wallet.json"] # NoFile
  BY <1>2, <1>3 DEF Files
<1>5. onDisk = Files => kept = Files
  BY <1>2
<1>6. kept = Files <=> \A f \in Files : file'[f] # NoFile
  BY <1>2, <1>3
<1>7. /\ \A i \in Inits :
           /\ pc'[i] \notin InitActive
           /\ pc'[i] = "idle" => pc[i] = "idle"
           /\ pc'[i] = "lost" => pc[i] \in {"lost", "ok"}
           /\ pc'[i] = "ok" => pc[i] = "ok" /\ kept = Files
      /\ pc' \in [Inits -> {"idle", "ok", "failed", "refused", "killed", "erased",
                            "lost"} \union InitActive]
  BY <1>1 DEF InitActive, TypeOK
<1>8. file' = [f \in Files |-> file'[f]]
  BY <1>1
<1> QED BY <1>1, <1>2, <1>4, <1>5, <1>6, <1>7, <1>8

LEMMA PowerLossStep ==
  ASSUME Inv, PowerLoss
  PROVE  Inv'
<1>1. /\ rpc' = [r \in Readers |-> IF rpc[r] \in ReadActive THEN "killed" ELSE rpc[r]]
      /\ UNCHANGED <<writing, todo, loaded>>
  BY DEF PowerLoss
<1>2. \A f \in Files : Lost(f) /\ file'[f] \in File \union {NoFile}
  BY LossOfAFile DEF Inv
<1>3. TypeOK'
  <2>1. file' \in [Files -> File \union {NoFile}]
    BY <1>2, LossInOrder DEF Inv
  <2>2. \A i \in Inits : pc'[i] \in {"readBack", "ok"} => writing'[i] = "config.toml"
    BY <1>1, LossInOrder DEF Inv, TypeOK, InitActive
  <2> QED BY <1>1, <2>1, <2>2, LossInOrder DEF Inv, TypeOK, ReadActive
<1>4. OneWriter'
  <2>1. \A f \in Files : file'[f] # NoFile => file[f] # NoFile /\ file'[f].by = file[f].by
    BY <1>2 DEF Lost, Exists
  <2>2. \A f \in Files :
          /\ file[f] # NoFile /\ file[f].part = "full" /\ file[f].synced
          /\ file'[f] # NoFile
          => file'[f] = file[f]
    BY <1>2 DEF Lost
  <2>3. /\ file'["wallet.json"] # NoFile => file'["node_key"] # NoFile
        /\ file'["config.toml"] # NoFile => file'["wallet.json"] # NoFile
    BY LossInOrder DEF Inv
  <2> QED BY <2>1, <2>2, <2>3 DEF Inv, OneWriter, Exists, Full, Files
<1>5. HoldInv'
  <2>1. \A i \in Inits : /\ pc'[i] \notin InitActive
                         /\ pc'[i] \in {"idle", "ok"} => pc[i] = pc'[i]
    BY LossInOrder DEF Inv
  <2>2. ASSUME NEW i \in Inits, pc'[i] = "ok"
        PROVE  /\ writing'[i] = "config.toml"
               /\ \A f \in Files : Done(i, f)'
    <3>1. /\ writing'[i] = "config.toml"
          /\ \A f \in Files : Done(i, f)
      BY <1>1, <2>1, <2>2 DEF Inv, TypeOK, HoldInv, Holds, Files
    <3>2. \A f \in Files : file[f].synced
      BY <3>1, DoneFacts
    <3>3. \A f \in Files : file'[f] # NoFile
      BY <2>2, LossInOrder DEF Inv
    <3>4. \A f \in Files : file'[f] = file[f]
      BY <1>2, <3>2, <3>3 DEF Lost
    <3> QED BY <3>1, <3>4 DEF Done
  <2> QED BY <1>1, <2>1, <2>2 DEF Inv, HoldInv, Holds, Files, InitActive
<1>6. ReadInv'
  BY <1>1 DEF Inv, TypeOK, ReadInv, ReadActive
<1> QED BY <1>3, <1>4, <1>5, <1>6 DEF Inv

LEMMA RemoveDirStep ==
  ASSUME Inv, RemoveDir
  PROVE  Inv'
<1>1. /\ \A i \in Inits : pc[i] \notin InitActive
      /\ \A r \in Readers : rpc[r] \notin ReadActive
      /\ file' = [f \in Files |-> NoFile]
      /\ pc' = [i \in Inits |-> IF pc[i] = "ok" THEN "erased" ELSE pc[i]]
      /\ onDisk' = {}
      /\ UNCHANGED <<writing, rpc, todo, loaded>>
  BY DEF RemoveDir, readVars
<1>2. TypeOK' /\ OneWriter' /\ HoldInv'
  BY <1>1 DEF Inv, TypeOK, OneWriter, HoldInv, Holds, Exists, Files, InitActive
<1>3. ReadInv'
  BY <1>1 DEF Inv, ReadInv, ReadActive
<1> QED BY <1>2, <1>3 DEF Inv

LEMMA NextInv == Inv /\ [Next]_vars => Inv'
<1> SUFFICES ASSUME Inv, [Next]_vars PROVE Inv'
  OBVIOUS
<1>1. CASE \E i \in Inits : InitStep(i)
  BY <1>1, QuietStep, CreateStep, WriteStep, SyncStep DEF InitStep
<1>2. CASE \E r \in Readers : ReadStep(r)
  BY <1>2, OpenStep, ReadStep1, ReadFailsStep DEF ReadStep
<1>3. CASE UNCHANGED vars
  BY <1>3
  DEF vars, readVars, Inv, TypeOK, OneWriter, HoldInv, ReadInv, Holds, Done, Exists,
      Full, NewFile
<1> QED BY <1>1, <1>2, <1>3, WriteBackStep, PowerLossStep, RemoveDirStep DEF Next

LEMMA Invariance == Spec => []Inv
BY InitInv, NextInv, PTL DEF Spec

-----------------------------------------------------------------------------
(***************************************************************************)
(* The files, the inits and the commands have the types declared for them. *)
(***************************************************************************)
THEOREM TypeCorrect == Spec => []TypeOK
<1>1. Inv => TypeOK
  BY DEF Inv
<1> QED BY <1>1, Invariance, PTL

(***************************************************************************)
(* Any number of inits, racing, killed or cut off by a loss of power, never*)
(* mix their files (cmd_init, write_new_secure).                           *)
(***************************************************************************)
THEOREM AlwaysOneWriter == Spec => []OneWriter
<1>1. Inv => OneWriter
  BY DEF Inv
<1> QED BY <1>1, Invariance, PTL

(***************************************************************************)
(* Every command that got past its loads acts for one init's identity,     *)
(* whichever files it loads, in whatever order (main.rs, work.rs).         *)
(***************************************************************************)
THEOREM AlwaysOneIdentity == Spec => []OneIdentity
<1>1. ASSUME Inv PROVE OneIdentity
  <2> SUFFICES ASSUME NEW r \in Readers, rpc[r] = "running"
               PROVE  \E i \in Inits : {loaded[r][f] : f \in Files} \ {NoOne} = {i}
    BY DEF OneIdentity
  <2>1. /\ file["node_key"] # NoFile
        /\ \A f \in Files : loaded[r][f] \in {NoOne, file["node_key"].by}
        /\ \E k \in Keys : loaded[r][k] # NoOne
    BY <1>1 DEF Inv, ReadInv, ReadActive, Exists
  <2>2. file["node_key"].by \in Inits /\ file["node_key"].by # NoOne
    BY <1>1, <2>1, FileFacts DEF Inv, TypeOK, Files
  <2>3. {loaded[r][f] : f \in Files} \ {NoOne} = {file["node_key"].by}
    BY <2>1, <2>2 DEF Keys, Files
  <2> QED BY <2>2, <2>3
<1> QED BY <1>1, Invariance, PTL

-----------------------------------------------------------------------------
LEMMA CreateEffect ==
  ASSUME Inv, NEW i \in Inits, Create(i)
  PROVE  /\ writing[i] \in Files
         /\ UNCHANGED <<rpc, todo, loaded>>
         /\ \/ file' = file
            \/ /\ file[writing[i]] = NoFile
               /\ \A f \in Files : file'[f] = IF f = writing[i] THEN NewFile(i) ELSE file[f]
<1>1. writing[i] \in Files /\ file = [f \in Files |-> file[f]]
  BY DEF Inv, TypeOK
<1> QED BY <1>1 DEF Create, readVars, Exists

\* A whole and synced file is never touched; another keeps its author.
LEMMA FilesStep ==
  ASSUME Inv, Next, NEW f \in Files, file[f] # NoFile, file'[f] # NoFile
  PROVE  /\ file'[f].by = file[f].by
         /\ file[f].part = "full" /\ file[f].synced => file'[f] = file[f]
<1>1. ASSUME NEW i \in Inits, Check(i) \/ Resolve(i) \/ ReadBack(i) \/ CallFails(i) \/ Kill(i)
      PROVE  file' = file
  BY <1>1 DEF Check, Resolve, ReadBack, CallFails, Kill
<1>2. ASSUME NEW i \in Inits, Create(i) PROVE file'[f] = file[f]
  BY <1>2, CreateEffect
<1>3. ASSUME NEW i \in Inits, Write(i)
      PROVE  /\ file'[f].by = file[f].by
             /\ file[f].part = "full" => file'[f] = file[f]
  <2> DEFINE New == [by |-> i, part |-> "full", synced |-> FALSE]
  <2>1. New.by = i
    OBVIOUS
  <2>2. \/ file'[f] = file[f]
        \/ file'[f] = New /\ file[f] = NewFile(i)
    BY <1>3, WriteEffect
  <2> HIDE DEF New
  <2>3. NewFile(i).by = i /\ NewFile(i).part = "empty"
    BY FileFacts
  <2> QED BY <2>1, <2>2, <2>3
<1>4. ASSUME NEW i \in Inits, Sync(i)
      PROVE  /\ file'[f].by = file[f].by
             /\ file[f].synced => file'[f] = file[f]
  <2> DEFINE Old == [by |-> i, part |-> "full", synced |-> FALSE]
             New == [by |-> i, part |-> "full", synced |-> TRUE]
  <2>1. New.by = i /\ Old.by = i /\ Old.synced = FALSE
    OBVIOUS
  <2>2. \/ file'[f] = file[f]
        \/ file'[f] = New /\ file[f] = Old
    BY <1>4, SyncEffect
  <2> HIDE DEF New, Old
  <2> QED BY <2>1, <2>2
<1>5. ASSUME NEW r \in Readers, ReadStep(r) PROVE file' = file
  BY <1>5 DEF ReadStep, Open, Read, ReadFails
<1>6. CASE PowerLoss
  BY <1>6, LossOfAFile DEF Inv, Lost
<1>7. ASSUME RemoveDir PROVE FALSE
  BY <1>7 DEF RemoveDir
<1>8. CASE WriteBack
  BY <1>8 DEF WriteBack
<1> QED BY <1>1, <1>2, <1>3, <1>4, <1>5, <1>6, <1>7, <1>8 DEF Next, InitStep

\* What a process writes is its own, and no process changes what is lost.
LEMMA LostNext ==
  ASSUME Inv, LostInv, [Next]_vars
  PROVE  LostInv'
<1> SUFFICES ASSUME NEW i \in Inits, pc'[i] = "lost",
                    NEW f \in Files, file'[f] # NoFile, file'[f].by = i
             PROVE  file'[f].part = "full" /\ file'[f].synced
  BY DEF LostInv, Exists, Full
<1>1. CASE pc[i] = "lost" /\ file'[f] = file[f]
  BY <1>1 DEF LostInv, Exists, Full
<1>2. ASSUME NEW j \in Inits, InitStep(j)
      PROVE  file'[f].part = "full" /\ file'[f].synced
  <2>1. pc[j] # "lost" /\ pc'[j] # "lost" /\ \A k \in Inits : k # j => pc'[k] = pc[k]
    BY <1>2 DEF InitStep, Check, Resolve, WalletResolved, Create, Write, Sync, ReadBack,
      CallFails, Kill, Goto, Inv, TypeOK, InitActive
  <2>2. file'[f] = file[f] \/ file'[f].by = j
    <3>1. CASE Create(j)
      BY <3>1, CreateEffect, FileFacts
    <3> DEFINE New(b) == [by |-> j, part |-> "full", synced |-> b]
    <3>2. \A b \in BOOLEAN : New(b).by = j
      OBVIOUS
    <3>3. CASE Write(j)
      <4>1. file'[f] = file[f] \/ file'[f] = New(FALSE)
        BY <3>3, WriteEffect
      <4> QED BY <3>2, <4>1
    <3>4. CASE Sync(j)
      <4>1. file'[f] = file[f] \/ file'[f] = New(TRUE)
        BY <3>4, SyncEffect
      <4> QED BY <3>2, <4>1
    <3> QED BY <1>2, <3>1, <3>3, <3>4
      DEF InitStep, Check, Resolve, ReadBack, CallFails, Kill
  <2> QED BY <1>1, <2>1, <2>2
<1>3. CASE UNCHANGED vars \/ WriteBack \/ \E r \in Readers : ReadStep(r)
  BY <1>1, <1>3 DEF vars, WriteBack, ReadStep, Open, Read, ReadFails
<1>4. CASE PowerLoss
  <2>1. Lost(f) /\ pc[i] \in {"lost", "ok"}
    BY <1>4, LossOfAFile, LossInOrder DEF Inv
  <2>2. file[f] # NoFile /\ file'[f].by = file[f].by
    BY <2>1 DEF Lost, Exists
  <2>3. CASE pc[i] = "ok"
    <3>1. Done(i, f)
      BY <2>3 DEF Inv, TypeOK, HoldInv, Holds, Files
    <3>2. file[f].part = "full" /\ file[f].synced
      BY <3>1, DoneFacts
    <3> QED BY <2>1, <3>2 DEF Lost
  <2>4. CASE pc[i] = "lost"
    <3>1. file[f].part = "full" /\ file[f].synced
      BY <2>2, <2>4 DEF LostInv, Exists, Full
    <3> QED BY <2>1, <3>1 DEF Lost
  <2> QED BY <2>1, <2>3, <2>4
<1>5. CASE RemoveDir
  BY <1>5 DEF RemoveDir
<1> QED BY <1>2, <1>3, <1>4, <1>5 DEF Next

LEMMA LostInit == Init => LostInv
BY DEF Init, LostInv

LEMMA LostInvariance == Spec => []LostInv
<1>1. Inv /\ LostInv /\ [Next]_vars => LostInv'
  BY LostNext
<1> QED BY <1>1, LostInit, Invariance, PTL DEF Spec

(***************************************************************************)
(* An init that reported success has its files whole and their contents on *)
(* disk, however many others try, and of what power takes back of it no    *)
(* torn file is left (write_new_secure's fsync before the next file).      *)
(***************************************************************************)
THEOREM NeverTorn == Spec => []SuccessIsNeverTorn
<1>1. Inv /\ LostInv => SuccessIsNeverTorn
  BY DEF Inv, LostInv, TypeOK, HoldInv, Holds, Done, SuccessIsNeverTorn, Files
<1> QED BY <1>1, Invariance, LostInvariance, PTL

(***************************************************************************)
(* NX-8 for any number of inits: a key that is whole is never written      *)
(* again (keys.rs 33-35).                                                  *)
(***************************************************************************)
THEOREM KeysAreNeverOverwritten == Spec => NeverOverwritten
<1>1. ASSUME Inv, [Next]_vars
      PROVE  [\A f \in Files :
                Exists(f) /\ file'[f] # NoFile =>
                  /\ file'[f].by = file[f].by
                  /\ Full(f) /\ file[f].synced => file'[f] = file[f]]_vars
  BY <1>1, FilesStep DEF Exists, Full
<1> QED BY <1>1, Invariance, PTL DEF Spec, NeverOverwritten

-----------------------------------------------------------------------------
(***************************************************************************)
(* The refinement.                                                         *)
(***************************************************************************)
Whole == \A f \in Files : Full(f) /\ file[f].synced

LEMMA StageIs ==
  /\ file["node_key"] = NoFile <=> Stage = "absent"
  /\ Stage = "safe" <=> Whole /\ onDisk = Files
  /\ Stage = "whole" <=> Whole /\ onDisk # Files
  /\ Stage \in {"absent", "partial", "whole", "safe"}
BY DEF Stage, Whole, Full, Exists, Files

LEMMA NextStageIs ==
  /\ file'["node_key"] = NoFile <=> Stage' = "absent"
  /\ Stage' = "safe" <=> Whole' /\ onDisk' = Files
  /\ Stage' = "whole" <=> Whole' /\ onDisk' # Files
  /\ Stage' \in {"absent", "partial", "whole", "safe"}
BY DEF Stage, Whole, Full, Exists, Files

\* A step that leaves the files and those that are being served alone.
LEMMA SameFiles ==
  ASSUME file' = file, onDisk' = onDisk
  PROVE  UNCHANGED <<Owner, Stage>>
BY DEF Owner, Stage, Exists, Full

LEMMA SameReaders ==
  ASSUME \A r \in Readers : (rpc'[r] = "running") = (rpc[r] = "running"), loaded' = loaded
  PROVE  UNCHANGED Serves
BY DEF Serves

LEMMA InitImplements == Init => Promise!Init
<1> SUFFICES ASSUME Init PROVE Promise!Init
  OBVIOUS
<1>1. file["node_key"] = NoFile
  BY DEF Init, Files
<1>2. Owner = NoOne
  BY <1>1 DEF Owner, Exists
<1>3. Stage = "absent"
  BY <1>1, StageIs
<1>4. Serves = Promise!Nobody
  BY DEF Init, Serves, Promise!Nobody
<1> QED BY <1>2, <1>3, <1>4 DEF Promise!Init

LEMMA CreateImplements ==
  ASSUME Inv, NEW i \in Inits, Create(i), UNCHANGED onDisk
  PROVE  Promise!Begin(i) \/ UNCHANGED <<Owner, Stage, Serves>>
<1>1. UNCHANGED Serves
  BY CreateEffect, SameReaders
<1>2. CASE file' = file
  BY <1>1, <1>2, SameFiles
<1>3. CASE /\ file[writing[i]] = NoFile
           /\ \A f \in Files : file'[f] = IF f = writing[i] THEN NewFile(i) ELSE file[f]
  <2>1. /\ NewFile(i) # NoFile /\ NewFile(i).by = i /\ NewFile(i).part = "empty"
        /\ writing[i] \in Files
    BY FileFacts, CreateEffect
  <2>2. ~ Whole'
    BY <1>3, <2>1 DEF Whole, Full
  <2>3. CASE writing[i] = "node_key"
    <3>1. Stage = "absent" /\ Stage' = "partial"
      BY <1>3, <2>1, <2>2, <2>3, StageIs, NextStageIs
    <3>2. Owner' = i
      BY <1>3, <2>1, <2>3 DEF Owner, Exists
    <3> QED BY <1>1, <3>1, <3>2 DEF Promise!Begin
  <2>4. CASE writing[i] # "node_key"
    <3>1. file'["node_key"] = file["node_key"]
      BY <1>3, <2>4 DEF Files
    <3>2. ~ Whole
      BY <1>3, <2>1 DEF Whole, Full, Exists
    <3> QED BY <1>1, <2>2, <3>1, <3>2, StageIs, NextStageIs DEF Owner, Exists
  <2> QED BY <2>3, <2>4
<1> QED BY <1>2, <1>3, CreateEffect

LEMMA WriteImplements ==
  ASSUME Inv, NEW i \in Inits, Write(i), UNCHANGED onDisk
  PROVE  UNCHANGED <<Owner, Stage, Serves>>
<1>1. UNCHANGED Serves
  BY WriteEffect, SameReaders
<1> DEFINE New == [by |-> i, part |-> "full", synced |-> FALSE]
<1>2. /\ New \in File /\ New.by = i /\ New.synced = FALSE
      /\ NewFile(i) # NoFile /\ NewFile(i).by = i /\ NewFile(i).part = "empty"
  BY FileFacts DEF File
<1>3. New # NoFile
  BY <1>2, DirAssumption
<1>4. /\ writing[i] \in Files /\ file[writing[i]] = NewFile(i)
      /\ \A f \in Files : file'[f] = IF f = writing[i] THEN New ELSE file[f]
  BY WriteEffect
<1> HIDE DEF New
<1>5. ~ Whole /\ ~ Whole'
  BY <1>2, <1>4 DEF Whole, Full
<1>6. /\ file'["node_key"] = NoFile <=> file["node_key"] = NoFile
      /\ file'["node_key"].by = file["node_key"].by
  BY <1>2, <1>3, <1>4 DEF Files
<1> QED BY <1>1, <1>5, <1>6, StageIs, NextStageIs DEF Owner, Exists

LEMMA SyncImplements ==
  ASSUME Inv, NEW i \in Inits, Sync(i), UNCHANGED onDisk
  PROVE  Promise!Finish \/ UNCHANGED <<Owner, Stage, Serves>>
<1>1. UNCHANGED Serves
  BY SyncEffect, SameReaders
<1> DEFINE Old == [by |-> i, part |-> "full", synced |-> FALSE]
           New == [by |-> i, part |-> "full", synced |-> TRUE]
<1>2. /\ New \in File /\ Old \in File /\ New.by = i /\ Old.by = i /\ Old.synced = FALSE
  BY DEF File
<1>3. New # NoFile /\ Old # NoFile
  BY <1>2, DirAssumption
<1>4. /\ writing[i] \in Files /\ file[writing[i]] = Old
      /\ \A f \in Files : file'[f] = IF f = writing[i] THEN New ELSE file[f]
  BY SyncEffect
<1> HIDE DEF Old, New
<1>5. ~ Whole
  BY <1>2, <1>4 DEF Whole
<1>6. /\ file'["node_key"] = NoFile <=> file["node_key"] = NoFile
      /\ file'["node_key"].by = file["node_key"].by
  BY <1>2, <1>3, <1>4 DEF Files
<1>7. file["node_key"] # NoFile
  BY <1>3, <1>4 DEF Inv, OneWriter, Exists, Full, Files
<1>8. UNCHANGED Owner
  BY <1>6 DEF Owner, Exists
<1>9. CASE Whole'
  BY <1>1, <1>5, <1>6, <1>7, <1>8, <1>9, StageIs, NextStageIs DEF Promise!Finish
<1>10. CASE ~ Whole'
  BY <1>1, <1>5, <1>6, <1>7, <1>8, <1>10, StageIs, NextStageIs
<1> QED BY <1>9, <1>10

LEMMA ReadImplements ==
  ASSUME Inv, Inv', NEW r \in Readers, Read(r), UNCHANGED onDisk
  PROVE  Promise!Serve(r) \/ UNCHANGED <<Owner, Stage, Serves>>
<1>1. UNCHANGED <<Owner, Stage>>
  BY SameFiles DEF Read
<1>2. /\ rpc[r] = "loading"
      /\ \A q \in Readers : q # r => loaded'[q] = loaded[q] /\ rpc'[q] = rpc[q]
      /\ rpc'[r] \in {"loading", "running"}
  BY DEF Read, Inv, TypeOK
<1>3. CASE rpc'[r] # "running"
  BY <1>1, <1>2, <1>3 DEF Serves
<1>4. CASE rpc'[r] = "running"
  <2>1. /\ file'["node_key"] # NoFile
        /\ \A f \in Files : loaded'[r][f] \in {NoOne, file'["node_key"].by}
        /\ \E k \in Keys : loaded'[r][k] # NoOne
    BY <1>4 DEF Inv, ReadInv, Exists, ReadActive
  <2>2. file' = file
    BY DEF Read
  <2>3. Owner = file["node_key"].by /\ Owner # NoOne
    BY <2>1, <2>2, FileFacts DEF Owner, Exists, Inv, TypeOK, Files
  <2>4. Serves'[r] = Owner
    BY <1>4, <2>1, <2>2, <2>3 DEF Serves, Keys, Files
  <2>5. Serves[r] = NoOne
    BY <1>2 DEF Serves
  <2>6. Serves' = [Serves EXCEPT ![r] = Owner]
    BY <1>2, <2>4 DEF Serves
  <2> QED BY <1>1, <2>3, <2>5, <2>6 DEF Promise!Serve
<1> QED BY <1>3, <1>4

LEMMA WriteBackImplements ==
  ASSUME Inv, WriteBack
  PROVE  Promise!WriteBack \/ UNCHANGED <<Owner, Stage, Serves>>
<1>1. /\ file' = file /\ UNCHANGED <<rpc, loaded>>
      /\ onDisk' = {f \in Files : Exists(f)}
  BY DEF WriteBack, readVars
<1>2. UNCHANGED Serves /\ UNCHANGED Owner
  BY <1>1, SameReaders DEF Owner, Exists
<1>3. Whole' <=> Whole
  BY <1>1 DEF Whole, Full, Exists
<1>4. Whole => onDisk' = Files
  BY <1>1 DEF Whole, Full
<1> QED BY <1>1, <1>2, <1>3, <1>4, StageIs, NextStageIs DEF Promise!WriteBack

LEMMA PowerLossImplements ==
  ASSUME Inv, PowerLoss
  PROVE  Promise!PowerLoss
<1>1. Serves' = Promise!Nobody
  <2>1. \A r \in Readers : rpc'[r] # "running"
    BY DEF PowerLoss, ReadActive
  <2> QED BY <2>1 DEF Serves, Promise!Nobody
<1>2. \A f \in Files : Lost(f)
  BY LossOfAFile DEF Inv
<1>3. file'["node_key"] # NoFile => file["node_key"] # NoFile /\ Owner' = Owner
  BY <1>2 DEF Owner, Exists, Lost, Files
<1>4. file'["node_key"] = NoFile => Owner' = NoOne /\ Stage' = "absent"
  BY NextStageIs DEF Owner, Exists
<1>5. Whole' => Whole /\ onDisk' = Files
  <2>1. Whole' => \A f \in Files : file'[f] # NoFile /\ file'[f].part = "full"
    BY DEF Whole, Full, Exists
  <2>2. Whole' => \A f \in Files : file'[f] = file[f]
    BY <1>2, <2>1 DEF Lost
  <2>3. Whole' => onDisk' = Files
    BY <2>1, LossInOrder DEF Inv
  <2> QED BY <2>2, <2>3 DEF Whole, Full, Exists
<1>6. Stage' # "whole"
  BY <1>5, NextStageIs
<1>7. CASE Stage = "safe"
  <2>1. Whole /\ onDisk = Files
    BY <1>7, StageIs
  <2>2. onDisk' = Files /\ \A f \in Files : file'[f] # NoFile
    BY <2>1, LossInOrder DEF Inv
  <2>3. \A f \in Files : file'[f] = file[f]
    BY <1>2, <2>1, <2>2 DEF Whole, Lost
  <2>4. Whole'
    BY <2>1, <2>3 DEF Whole, Full, Exists
  <2> QED BY <1>1, <1>3, <1>7, <2>2, <2>4, NextStageIs DEF Promise!PowerLoss, Files
<1>8. CASE Stage = "whole"
  BY <1>1, <1>3, <1>4, <1>6, <1>8, NextStageIs DEF Promise!PowerLoss
<1>9. CASE Stage = "partial"
  <2>1. ~ Whole'
    BY <1>5, <1>9, StageIs
  <2> QED BY <1>1, <1>3, <1>4, <1>9, <2>1, NextStageIs DEF Promise!PowerLoss
<1>10. CASE Stage = "absent"
  <2>1. file["node_key"] = NoFile /\ file'["node_key"] = NoFile
    BY <1>3, <1>10, StageIs
  <2> QED BY <1>1, <1>4, <1>10, <2>1 DEF Promise!PowerLoss, Owner, Exists
<1> QED BY <1>7, <1>8, <1>9, <1>10, StageIs

LEMMA RemoveDirImplements ==
  ASSUME RemoveDir
  PROVE  Promise!Erase
<1>1. Serves = Promise!Nobody /\ Serves' = Promise!Nobody
  BY DEF RemoveDir, readVars, Serves, Promise!Nobody, ReadActive
<1>2. file'["node_key"] = NoFile
  BY DEF RemoveDir, Files
<1> QED BY <1>1, <1>2, NextStageIs DEF Promise!Erase, Owner, Exists

LEMMA NextImplements == Inv /\ Inv' /\ [Next]_vars => [Promise!Next]_(Promise!vars)
<1> SUFFICES ASSUME Inv, Inv', [Next]_vars
             PROVE  Promise!Next \/ UNCHANGED <<Owner, Stage, Serves>>
  BY DEF Promise!vars
<1>1. ASSUME NEW i \in Inits, UNCHANGED onDisk,
             Check(i) \/ Resolve(i) \/ ReadBack(i) \/ CallFails(i) \/ Kill(i)
      PROVE  UNCHANGED <<Owner, Stage, Serves>>
  <2>1. UNCHANGED <<file, rpc, loaded>>
    BY <1>1 DEF Check, Resolve, ReadBack, CallFails, Kill, readVars
  <2> QED BY <1>1, <2>1, SameFiles, SameReaders
<1>2. ASSUME NEW r \in Readers, UNCHANGED onDisk, Open(r) \/ ReadFails(r)
      PROVE  UNCHANGED <<Owner, Stage, Serves>>
  <2>1. UNCHANGED <<file, loaded>>
    BY <1>2 DEF Open, ReadFails
  <2>2. \A q \in Readers : (rpc'[q] = "running") = (rpc[q] = "running")
    BY <1>2 DEF Open, ReadFails, Inv, TypeOK
  <2> QED BY <1>2, <2>1, <2>2, SameFiles, SameReaders
<1>3. CASE UNCHANGED vars
  BY <1>3, SameFiles, SameReaders DEF vars, readVars
<1>4. CASE \E i \in Inits : InitStep(i)
  BY <1>1, <1>4, CreateImplements, WriteImplements, SyncImplements DEF InitStep, Promise!Next
<1>5. CASE \E r \in Readers : ReadStep(r)
  BY <1>2, <1>5, ReadImplements DEF ReadStep, Promise!Next
<1> QED BY <1>3, <1>4, <1>5, WriteBackImplements, PowerLossImplements, RemoveDirImplements
  DEF Next, Promise!Next

(***************************************************************************)
(* The three files implement one directory with one owner, for any number  *)
(* of inits and commands (cmd_init; the loads of the other commands).      *)
(***************************************************************************)
THEOREM Implementation == Spec => ImplementsDirectory
<1> QED BY InitImplements, NextImplements, Invariance, PTL
        DEF Spec, ImplementsDirectory, Promise!Spec
=============================================================================
