------------------------------ MODULE DataDir -------------------------------
(***************************************************************************)
(* The data directory and the start of the program: load_or_create of      *)
(* src/crypto.rs, the renames and ensure_certs of src/main.rs, Db::open    *)
(* and migrate of src/db.rs, one action per file operation or statement.   *)
(* The process can end between any two of them and is started again.       *)
(*                                                                         *)
(* A database is the set of the items committed to its main file and to    *)
(* its write-ahead log.  A random value (a key, a key pair) is a number    *)
(* that was not used before.                                               *)
(*                                                                         *)
(* Operators whose name ends in _M are deliberate mistakes.  No action     *)
(* uses them: each stands before the definition it would replace, to show  *)
(* that a property notices the mistake.                                    *)
(***************************************************************************)
EXTENDS Naturals, Sequences

CONSTANTS
    Worker,      \* rows of the workers table
    MaxCrashes,  \* bound: how often the process ends before its time
    Absent,      \* no such file
    Torn         \* a file that was created and never written

ASSUME MaxCrashesAssumption == MaxCrashes \in Nat
ASSUME FileAssumption == Absent # Torn /\ Absent \notin Nat /\ Torn \notin Nat

VARIABLES
    pc,         \* where the start is; "up": serving; "down": no process
    key,        \* the process's SecretKey
    pair,       \* the key pair the process has generated
    keyFile,    \* .agentenzentrale-key
    legacyKey,  \* .q-key
    files,      \* the main files of databases that exist, by name
    db, wal,    \* items in agentenzentrale.sqlite and in its -wal
    oldDb,      \* items in q.sqlite
    oldWal,     \* and in its -wal, which need not exist to be empty
    kvKey,      \* the value of kv's encryption_key, the one inserted last
    crt,        \* selfsigned.crt
    tlsKey,     \* selfsigned.key
    made,       \* random values generated so far
    crashes,    \* crashes so far
    committed,  \* history: every item ever committed
    separated   \* history: the old database has lost its log

keyFiles == <<keyFile, legacyKey>>
dbFiles == <<files, db, wal, oldDb, oldWal, kvKey>>
notWal == <<files, db, oldDb, oldWal>>
certFiles == <<crt, tlsKey>>
history == <<committed, separated>>
vars == <<pc, key, pair, keyFiles, dbFiles, certFiles, made, crashes, history>>

-----------------------------------------------------------------------------
\* What migrate leaves: the tables, in the order it creates them, the key in
\* kv, and the column that older databases lack.
Tables == <<"users", "sessions", "invite_tokens", "workers", "kv">>

\* A table, a column or kv's key; a worker whose password is encrypted with k.
Named(name) == <<name>>
Row(w, k) == <<"row", w, k>>

Column == Named("username")
KvKey == Named("encryption_key")
Schema == {Named(Tables[i]) : i \in 1 .. 5} \cup {Column, KvKey}
Item == Schema \cup {"row"} \X Worker \X Nat

\* CREATE TABLE IF NOT EXISTS workers brings the column as well.
Created(table) ==
    IF table = "workers" THEN {Named(table), Column} ELSE {Named(table)}

Visible == db \cup wal
OnDisk == Visible \cup oldDb \cup oldWal

Steps == {"down", "key", "write key", "db", "wal", "open",
          "tables", "kv", "column", "cert", "crt", "tls key", "write tls key",
          "load", "up"}
File == Nat \cup {Absent, Torn}
NewName == "agentenzentrale.sqlite"
OldName == "q.sqlite"

TypeOK ==
    /\ pc \in Steps
    /\ key \in Nat \cup {Absent} /\ pair \in Nat \cup {Absent}
    /\ keyFile \in File /\ legacyKey \in File
    /\ files \subseteq {NewName, OldName}
    /\ db \subseteq Item /\ wal \subseteq Item
    /\ oldDb \subseteq Item /\ oldWal \subseteq Item
    /\ kvKey \in Nat \cup {Absent}
    /\ crt \in File /\ tlsKey \in File
    /\ made \in Nat
    /\ crashes \in 0 .. MaxCrashes
    /\ committed \subseteq Item
    /\ separated \in BOOLEAN

\* A new directory, or one that an installation under the old name has left.
Fresh ==
    /\ legacyKey = Absent /\ kvKey = Absent /\ made = 0
    /\ files = {} /\ oldDb = {} /\ oldWal = {}

Legacy ==
    /\ legacyKey = 0 /\ kvKey = 1 /\ made = 2 /\ files = {OldName}
    /\ \E column \in SUBSET {Column}, rows \in SUBSET Worker :
         LET schema == (Schema \ {Column}) \cup column
             RowsOf(workers) == {Row(w, 0) : w \in workers}
         IN  \/ \E logged \in SUBSET rows :
                  /\ oldDb = schema \cup RowsOf(rows \ logged)
                  /\ oldWal = RowsOf(logged)
             \/ oldDb = {} /\ oldWal = schema \cup RowsOf(rows)

Init ==
    /\ pc = "down" /\ key = Absent /\ pair = Absent
    /\ keyFile = Absent /\ db = {} /\ wal = {}
    /\ crt = Absent /\ tlsKey = Absent
    /\ Fresh \/ Legacy
    /\ crashes = 0 /\ separated = FALSE
    /\ committed = oldDb \cup oldWal

-----------------------------------------------------------------------------
Goto(from, to) == pc = from /\ pc' = to

Start ==
    /\ Goto("down", "key")
    /\ UNCHANGED <<key, pair, keyFiles, dbFiles, certFiles, made, crashes, history>>

(* SecretKey::load_or_create *)

RenameKey ==
    /\ Goto("key", "key")
    /\ keyFile = Absent /\ legacyKey # Absent
    /\ keyFile' = legacyKey /\ legacyKey' = Absent
    /\ UNCHANGED <<key, pair, dbFiles, certFiles, made, crashes, history>>

\* The length is not checked.
ReadKeyUnchecked_M ==
    /\ Goto("key", "db")
    /\ keyFile # Absent
    /\ key' = keyFile
    /\ UNCHANGED <<pair, keyFiles, dbFiles, certFiles, made, crashes, history>>

ReadKey ==
    /\ Goto("key", "db")
    /\ keyFile \in Nat
    /\ key' = keyFile
    /\ UNCHANGED <<pair, keyFiles, dbFiles, certFiles, made, crashes, history>>

\* A key file of the wrong length ends the start.
RefuseKey ==
    /\ Goto("key", "down")
    /\ keyFile = Torn
    /\ UNCHANGED <<key, pair, keyFiles, dbFiles, certFiles, made, crashes, history>>

\* Only the new name is looked at.
CreateKeyIgnoresLegacy_M ==
    /\ Goto("key", "write key")
    /\ keyFile = Absent
    /\ key' = made /\ made' = made + 1
    /\ keyFile' = Torn
    /\ UNCHANGED <<pair, legacyKey, dbFiles, certFiles, crashes, history>>

CreateKey ==
    /\ Goto("key", "write key")
    /\ keyFile = Absent /\ legacyKey = Absent
    /\ key' = made /\ made' = made + 1
    /\ keyFile' = Torn
    /\ UNCHANGED <<pair, legacyKey, dbFiles, certFiles, crashes, history>>

WriteKey ==
    /\ Goto("write key", "db")
    /\ keyFile' = key
    /\ UNCHANGED <<key, pair, legacyKey, dbFiles, certFiles, made, crashes, history>>

-----------------------------------------------------------------------------
(* The old database's name *)

RenameDb ==
    /\ Goto("db", "wal")
    /\ NewName \notin files /\ OldName \in files
    /\ files' = (files \ {OldName}) \cup {NewName}
    /\ db' = oldDb /\ oldDb' = {}
    /\ UNCHANGED <<key, pair, keyFiles, wal, oldWal, kvKey, certFiles, made, crashes, history>>

KeepDb ==
    /\ Goto("db", "open")
    /\ NewName \in files \/ OldName \notin files
    /\ UNCHANGED <<key, pair, keyFiles, dbFiles, certFiles, made, crashes, history>>

\* The log stays behind.
RenameWalForgotten_M ==
    /\ Goto("wal", "open")
    /\ UNCHANGED <<key, pair, keyFiles, dbFiles, certFiles, made, crashes, history>>

RenameWal ==
    /\ Goto("wal", "open")
    /\ wal' = oldWal /\ oldWal' = {}
    /\ UNCHANGED <<key, pair, keyFiles, files, db, oldDb, kvKey, certFiles, made, crashes, history>>

\* The result of this rename is ignored.
RenameWalFails ==
    /\ Goto("wal", "open")
    /\ oldWal # {}
    /\ separated' = TRUE
    /\ UNCHANGED <<key, pair, keyFiles, dbFiles, certFiles, made, crashes, committed>>

-----------------------------------------------------------------------------
(* Db::open and migrate *)

Commit(items) ==
    /\ wal' = wal \cup items
    /\ committed' = committed \cup items

Open ==
    /\ Goto("open", "tables")
    /\ files' = files \cup {NewName}
    /\ UNCHANGED <<key, pair, keyFiles, db, wal, oldDb, oldWal, kvKey, certFiles, made, crashes, history>>

CreateTable(i) ==
    /\ Goto("tables", "tables")
    /\ Named(Tables[i]) \notin Visible
    /\ \A j \in 1 .. i - 1 : Named(Tables[j]) \in Visible
    /\ Commit(Created(Tables[i]))
    /\ UNCHANGED <<key, pair, keyFiles, notWal, kvKey, certFiles, made, crashes, separated>>

\* A database with a users table is taken for a complete one.
TablesExistEarly_M ==
    /\ Goto("tables", "kv")
    /\ Named("users") \in Visible
    /\ UNCHANGED <<key, pair, keyFiles, dbFiles, certFiles, made, crashes, history>>

TablesExist ==
    /\ Goto("tables", "kv")
    /\ \A i \in 1 .. 5 : Named(Tables[i]) \in Visible
    /\ UNCHANGED <<key, pair, keyFiles, dbFiles, certFiles, made, crashes, history>>

\* A random value is stored, unless there is one.
InsertKvKey ==
    /\ Goto("kv", "column")
    /\ IF KvKey \in Visible
       THEN UNCHANGED <<wal, committed, kvKey, made>>
       ELSE Commit({KvKey}) /\ kvKey' = made /\ made' = made + 1
    /\ UNCHANGED <<key, pair, keyFiles, notWal, certFiles, crashes, separated>>

\* A second ALTER TABLE fails on the column's name.
AddColumnUnchecked_M ==
    /\ IF Column \in Visible
       THEN Goto("column", "down") /\ UNCHANGED <<wal, committed>>
       ELSE Goto("column", "cert") /\ Commit({Column})
    /\ UNCHANGED <<key, pair, keyFiles, notWal, kvKey, certFiles, made, crashes, separated>>

\* ALTER TABLE, unless pragma_table_info has the column.
AddColumn ==
    /\ Goto("column", "cert")
    /\ IF Column \in Visible THEN UNCHANGED <<wal, committed>> ELSE Commit({Column})
    /\ UNCHANGED <<key, pair, keyFiles, notWal, kvKey, certFiles, made, crashes, separated>>

-----------------------------------------------------------------------------
(* ensure_certs, when TLS is on and no certificate was given *)

\* Only what is missing is generated.
GenerateMissing_M ==
    /\ crt = Absent \/ tlsKey = Absent
    /\ Goto("cert", IF crt = Absent THEN "crt" ELSE "tls key")
    /\ pair' = made /\ made' = made + 1
    /\ UNCHANGED <<key, keyFiles, dbFiles, certFiles, crashes, history>>

\* Every start generates a pair of its own.
GenerateAlways_M ==
    /\ Goto("cert", "crt")
    /\ pair' = made /\ made' = made + 1
    /\ UNCHANGED <<key, keyFiles, dbFiles, certFiles, crashes, history>>

Generate ==
    /\ Goto("cert", "crt")
    /\ crt = Absent \/ tlsKey = Absent
    /\ pair' = made /\ made' = made + 1
    /\ UNCHANGED <<key, keyFiles, dbFiles, certFiles, crashes, history>>

CertExists ==
    /\ Goto("cert", "load")
    /\ crt # Absent /\ tlsKey # Absent
    /\ UNCHANGED <<key, pair, keyFiles, dbFiles, certFiles, made, crashes, history>>

\* Each file is created or truncated, then written.
WriteCrt ==
    /\ \/ Goto("crt", "crt") /\ crt' = Torn
       \/ Goto("crt", "tls key") /\ crt = Torn /\ crt' = pair
    /\ UNCHANGED <<key, pair, keyFiles, dbFiles, tlsKey, made, crashes, history>>

WriteTlsKey ==
    /\ \/ Goto("tls key", "write tls key") /\ tlsKey' = Torn
       \/ Goto("write tls key", "load") /\ tlsKey' = pair
    /\ UNCHANGED <<key, pair, keyFiles, dbFiles, crt, made, crashes, history>>

\* RustlsConfig::from_pem_file
LoadPair ==
    /\ Goto("load", "up")
    /\ crt \in Nat /\ tlsKey \in Nat
    /\ UNCHANGED <<key, pair, keyFiles, dbFiles, certFiles, made, crashes, history>>

RefusePair ==
    /\ Goto("load", "down")
    /\ crt = Torn \/ tlsKey = Torn
    /\ UNCHANGED <<key, pair, keyFiles, dbFiles, certFiles, made, crashes, history>>

-----------------------------------------------------------------------------
(* Serving, and the end of the process *)

\* TLS is off, or a certificate was given.
ServeWithoutSelfSigned ==
    /\ Goto("cert", "up")
    /\ UNCHANGED <<key, pair, keyFiles, dbFiles, certFiles, made, crashes, history>>

\* web/mod.rs encrypts the password with the process's SecretKey.
AddWorker(w) ==
    /\ pc = "up"
    /\ \A k \in 0 .. made : Row(w, k) \notin Visible
    /\ Commit({Row(w, key)})
    /\ UNCHANGED <<pc, key, pair, keyFiles, notWal, kvKey, certFiles, made, crashes, separated>>

\* SQLite moves the log's pages to the main file.
Checkpoint ==
    /\ pc = "up"
    /\ db' = db \cup wal /\ wal' = {}
    /\ UNCHANGED <<pc, key, pair, keyFiles, files, oldDb, oldWal, kvKey, certFiles, made, crashes, history>>

\* The process is killed, or an operation fails and main returns its error.
Crash ==
    /\ pc # "down" /\ crashes < MaxCrashes
    /\ pc' = "down" /\ key' = Absent /\ pair' = Absent
    /\ crashes' = crashes + 1
    /\ separated' = (separated \/ (pc = "wal" /\ oldWal # {}))
    /\ UNCHANGED <<keyFiles, dbFiles, certFiles, made, committed>>

StartStep ==
    \/ Start \/ RenameKey \/ ReadKey \/ RefuseKey \/ CreateKey \/ WriteKey
    \/ RenameDb \/ KeepDb \/ RenameWal
    \/ Open \/ \E i \in 1 .. 5 : CreateTable(i)
    \/ TablesExist \/ InsertKvKey \/ AddColumn
    \/ Generate \/ CertExists \/ WriteCrt \/ WriteTlsKey \/ LoadPair \/ RefusePair

Next ==
    \/ StartStep \/ RenameWalFails \/ ServeWithoutSelfSigned
    \/ \E w \in Worker : AddWorker(w)
    \/ Checkpoint \/ Crash

Spec == Init /\ [][Next]_vars

\* The process runs, and is started again when it has ended.
FairSpec == Spec /\ WF_vars(StartStep)

\* Where the step FairSpec relies on can be taken.  Weak fairness speaks of
\* ENABLED; the proof of StartsUnlessTorn uses it only in this form.
FairStepsReady == pc # "up" => ENABLED <<StartStep>>_vars

-----------------------------------------------------------------------------
(* Properties *)

KeyOnDisk == IF keyFile = Absent THEN legacyKey ELSE keyFile

\* Every password on disk is encrypted with the key on disk, at every moment
\* of a migration and whatever crashes: no start replaces a key that was used,
\* and a torn key file was never used for anything.
SecretsReadable == \A w \in Worker, k \in 0 .. made : Row(w, k) \in OnDisk => k = KeyOnDisk

\* "Generate and store the data-encryption key for worker passwords"
\* (db.rs:74-76): what migrate has stored in kv would be the key of every
\* password that the server commits.  The code encrypts with the key file's.
KvKeyEncrypts ==
    [][\A w \in Worker, k \in 0 .. made :
         Row(w, k) \in committed' \ committed => k = kvKey]_vars

\* A server that is up has every table, the column and kv's key, also after a
\* start that was cut off in the middle of the migration.
SchemaComplete == pc = "up" => Schema \subseteq Visible

\* What was committed is visible to every later server, unless the one crash
\* or error between the renames of q.sqlite and of its log has separated them.
CommittedVisible == pc = "up" /\ ~separated => committed \subseteq Visible

\* Certificate and key are never of two generations.
PairMatches == crt \in Nat /\ tlsKey \in Nat => crt = tlsKey

\* "On first run with no certificate, Agentenzentrale generates a self-signed
\* cert" (README.md:48-49): what one start has completed, no later one changes,
\* wherever it and the ones before were cut off.  A certificate that browsers
\* were told to trust stays, a key stays, a migrated database is opened as it
\* is (only a log that is still to be renamed follows its main file).
FirstRunOnly ==
    [][/\ keyFile \in Nat => keyFile' = keyFile
       /\ crt \in Nat /\ tlsKey \in Nat => UNCHANGED certFiles
       /\ Schema \subseteq Visible /\ pc \notin {"wal", "up"} => UNCHANGED dbFiles]_vars

\* A program that is started again and again is up at last, unless a crash
\* has left a key file without its content: such a file is never replaced.
StartsUnlessTorn == []<>(pc = "up") \/ <>[](keyFile = Torn \/ tlsKey = Torn)
=============================================================================
