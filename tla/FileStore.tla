------------------------------ MODULE FileStore ------------------------------
(***************************************************************************)
(* FileTumblerStore (packages/server/src/file-store.ts): one JSON file     *)
(* shared by several processes through a lock file created with 'wx', and  *)
(* rewritten through a temporary file and rename.                          *)
(*                                                                         *)
(* A process runs each operation synchronously, but other processes run    *)
(* between its system calls and it may die or be suspended at any of them. *)
(* A lock left behind stays until an operator removes it "with the owning  *)
(* process stopped".  Files survive the death of a process.                *)
(***************************************************************************)
EXTENDS TumblerMap

CONSTANTS
  FileClient,   \* client ids
  Proc,         \* processes that share the file
  FileEntries,  \* maxEntries
  NoEntry,      \* "no map for this client"
  NoProc,       \* "the lock file does not exist"
  FileIssued,   \* bound of the model: generated credentials
  MaxDeaths     \* bound of the model: process deaths

ASSUME FileAssumption ==
  /\ FileEntries \in Nat \ {0} /\ {FileIssued, MaxDeaths} \subseteq Nat
  /\ NoProc \notin Proc /\ NoEntry \notin Map

VARIABLES
  file,      \* the maps in the backing file
  lockfile,  \* the process whose lock file exists
  proc,      \* the progress of each process
  minted,    \* credentials generated so far
  spent,     \* history: uses reported to a caller as accepted
  deaths     \* process deaths so far

fileVars == <<file, lockfile, proc, minted, spent, deaths>>

Content == [FileClient -> Map \cup {NoEntry}]
Resting == [pc |-> "idle"]
Use     == [client : FileClient, born : Nat, ctr : [Seg -> Usable]]

FileInit ==
  /\ file = [c \in FileClient |-> NoEntry]
  /\ lockfile = NoProc
  /\ proc = [p \in Proc |-> Resting]
  /\ minted = 0 /\ spent = {} /\ deaths = 0

-----------------------------------------------------------------------------
(* The candidates of each operation, from the maps just loaded, with the   *)
(* use it would report as accepted and the credentials it stores first.    *)

Entries(d)   == {c \in FileClient : d[c] # NoEntry}
Full(d)      == Cardinality(Entries(d)) >= FileEntries
Quiet(d)     == [data |-> d, use |-> {}, fresh |-> 0]
Minting(d)   == [data |-> d, use |-> {}, fresh |-> 1]

(* set: a generated credential, or the stored one with a new status.       *)
fileSet(d) ==
  {Minting([d EXCEPT ![c] = NewMap(lc, minted)]) :
     c \in {x \in FileClient : minted < FileIssued /\ (x \in Entries(d) \/ ~Full(d))},
     lc \in Lifecycle}
  \cup {Quiet([d EXCEPT ![c].status = s]) :
          c \in {x \in Entries(d) : d[x].status \notin Terminal}, s \in Terminal}

(* delete, and get of a map past maxAgeMs. *)
fileDelete(d) == {Quiet([d EXCEPT ![c] = NoEntry]) : c \in Entries(d)}

fileUpdateCounters(d) ==
  {Quiet([d EXCEPT ![u[1]] = Reconciled([@ EXCEPT !.ctr = u[2]])]) :
     u \in {x \in Entries(d) \X [Seg -> Counter] : \A s \in Seg : x[2][s] >= d[x[1]].ctr[s]}}

(* The exhausted sentinel turns any status into 'expired'.                 *)
fileConsumeCounter(d) ==
  {Quiet([d EXCEPT ![c].status = "expired"]) :
     c \in {x \in Entries(d) : UsesRemainingAtMost(d[x], 0)}}
  \cup {Quiet([d EXCEPT ![u[1]] =
                 Reconciled([@ EXCEPT !.ctr = [d[u[1]].ctr EXCEPT ![u[2]] = u[3] + 1]])]) :
          u \in {x \in Entries(d) \X Seg \X Usable : x[3] >= d[x[1]].ctr[x[2]]}}

fileCommitValidation(d) ==
  {[data  |-> [d EXCEPT ![c] = commitValidationToMap(@, v, 0)],
    use   |-> IF CommitOk(d[c], v, 0)
              THEN {[client |-> c, born |-> d[c].createdAt, ctr |-> v]} ELSE {},
    fresh |-> 0] : c \in Entries(d), v \in Vector}

(* A full file drops the old map in the same rewrite. *)
fileReplaceCredential(d) ==
  {Minting([d EXCEPT ![u[1]] = IF Full(d) THEN NoEntry ELSE [@ EXCEPT !.status = "revoked"],
                     ![u[2]] = NewMap(u[3], minted)]) :
     u \in {x \in Entries(d) \X (FileClient \ Entries(d)) \X Lifecycle :
              d[x[1]].status \notin Terminal /\ minted < FileIssued}}

Candidates(d) ==
  fileSet(d) \cup fileDelete(d) \cup fileUpdateCounters(d) \cup fileConsumeCounter(d)
    \cup fileCommitValidation(d) \cup fileReplaceCredential(d)

-----------------------------------------------------------------------------
(* transaction and flush.                                                  *)

(* As a bug: a lock of a process that has not moved is taken over.         *)
openLock_Ages(p) ==
  /\ proc[p] = Resting
  /\ lockfile' = p
  /\ proc' = [proc EXCEPT ![p] = [pc |-> "locked"]]
  /\ UNCHANGED <<file, minted, spent, deaths>>

(* openSync(lock, 'wx'): a lock file of anyone else is an error.           *)
openLock(p) ==
  /\ proc[p] = Resting
  /\ lockfile = NoProc
  /\ lockfile' = p
  /\ proc' = [proc EXCEPT ![p] = [pc |-> "locked"]]
  /\ UNCHANGED <<file, minted, spent, deaths>>

(* load, the operation, and the temporary file: nothing visible changes.   *)
stage(p) ==
  /\ proc[p].pc = "locked"
  /\ \E c \in Candidates(file) :
       proc' = [proc EXCEPT ![p] = [pc |-> "staged", base |-> file, cand |-> c]]
  /\ UNCHANGED <<file, lockfile, minted, spent, deaths>>

(* A read, a refused operation or a failed write: nothing to rename.       *)
noChange(p) ==
  /\ proc[p].pc \in {"locked", "staged"}
  /\ proc' = [proc EXCEPT ![p] = [pc |-> "unlock", use |-> {}]]
  /\ UNCHANGED <<file, lockfile, minted, spent, deaths>>

(* renameSync: the whole candidate becomes the file.                       *)
rename(p) ==
  /\ proc[p].pc = "staged"
  /\ file' = proc[p].cand.data
  /\ minted' = minted + proc[p].cand.fresh
  /\ proc' = [proc EXCEPT ![p] = [pc |-> "unlock", use |-> proc[p].cand.use]]
  /\ UNCHANGED <<lockfile, spent, deaths>>

(* Unlink the lock this process created, then answer the caller.           *)
unlock(p) ==
  /\ proc[p].pc = "unlock"
  /\ lockfile = p
  /\ lockfile' = NoProc
  /\ spent' = spent \cup proc[p].use
  /\ proc' = [proc EXCEPT ![p] = Resting]
  /\ UNCHANGED <<file, minted, deaths>>

(* The process dies; its lock and its temporary file stay behind.          *)
Die(p) ==
  /\ proc[p].pc \in {"locked", "staged", "unlock"} /\ deaths < MaxDeaths
  /\ proc' = [proc EXCEPT ![p] = [pc |-> "dead"]]
  /\ deaths' = deaths + 1
  /\ UNCHANGED <<file, lockfile, minted, spent>>

(* The operator resolves an abandoned lock and restarts its owner.         *)
Resolve(p) ==
  /\ proc[p].pc = "dead"
  /\ lockfile' = IF lockfile = p THEN NoProc ELSE lockfile
  /\ proc' = [proc EXCEPT ![p] = Resting]
  /\ UNCHANGED <<file, minted, spent, deaths>>

FileNext ==
  \E p \in Proc : \/ openLock(p) \/ stage(p) \/ noChange(p) \/ rename(p) \/ unlock(p)
                  \/ Die(p) \/ Resolve(p)

-----------------------------------------------------------------------------
(* Representation, and the capacity of the file.                           *)
FileTypeOK ==
  /\ \A c \in Entries(file) : file[c] \in Map /\ CounterStateOk(file[c])
  /\ Cardinality(Entries(file)) <= FileEntries
  /\ lockfile \in Proc \cup {NoProc}
  /\ spent \subseteq Use

(* No update is lost between processes: whoever is about to rename built   *)
(* its candidate from the file as it is now, whichever process died, was   *)
(* suspended or had its lock resolved.                                     *)
NoLostUpdate ==
  \A p \in Proc : proc[p].pc = "staged" => proc[p].base = file

(* A use reported as accepted is in the file, across every death: as long  *)
(* as the credential is stored, its counters are past the reported ones.   *)
AcceptedIsStored ==
  \A u \in spent : file[u.client] # NoEntry /\ file[u.client].createdAt = u.born =>
    \A s \in Seg : file[u.client].ctr[s] > u.ctr[s]

(* The file store of two processes: bounded, no update lost, and no        *)
(* accepted use forgotten, through every death and every lock resolved by  *)
(* an operator.                                                            *)
FileSound == FileTypeOK /\ NoLostUpdate /\ AcceptedIsStored

-----------------------------------------------------------------------------
(* The store by itself, and the inductive invariant behind it.             *)

FileSpec == FileInit /\ [][FileNext]_fileVars

ProcState ==
  {Resting, [pc |-> "locked"], [pc |-> "dead"]}
    \cup [pc : {"staged"}, base : Content, cand : [data : Content, use : SUBSET Use, fresh : 0..1]]
    \cup [pc : {"unlock"}, use : SUBSET Use]

(* A use of a credential generated before, which the file does not offer   *)
(* again.                                                                  *)
Remembered(u, d) ==
  /\ u.born < minted
  /\ d[u.client] # NoEntry /\ d[u.client].createdAt = u.born =>
       \A s \in Seg : d[u.client].ctr[s] > u.ctr[s]

FileShape ==
  /\ file \in Content /\ IsFiniteSet(Entries(file)) /\ minted \in Nat
  /\ proc \in [Proc -> ProcState]
  /\ \A c \in Entries(file) : file[c].createdAt < minted

(* Whoever is between openSync and unlink owns the lock file; what it has  *)
(* staged is an operation on the file as it is, and what it has renamed    *)
(* but not yet reported is remembered as well.                             *)
LockOwned ==
  \A p \in Proc :
    /\ proc[p].pc \in {"locked", "staged", "unlock"} => lockfile = p
    /\ proc[p].pc = "staged" => proc[p].cand \in Candidates(file)
    /\ proc[p].pc = "unlock" => \A u \in proc[p].use : Remembered(u, file)

FileInv == FileShape /\ LockOwned /\ (\A u \in spent : Remembered(u, file)) /\ FileSound
=============================================================================
