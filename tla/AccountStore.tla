---------------------------- MODULE AccountStore ----------------------------
(***************************************************************************)
(* The account cache of wallet/non-evm-account-store.ts: an array in memory *)
(* loaded once from a JSON file, and rewritten whole through a temporary    *)
(* file and a rename.  A client starts a server process each, and they all  *)
(* use the file of the same home directory.                                 *)
(*                                                                         *)
(* saveAccount and removeAccount are synchronous, so one process runs one   *)
(* at a time; the steps below are those the operating system sees, between  *)
(* which another process may run, the process may die, or a call may fail.  *)
(***************************************************************************)
EXTENDS Sequences, Functions

CONSTANTS
    Processes,  \* server processes, one after another or at once
    Keys,       \* (chain, address) pairs
    Batches     \* the accounts one pair_*_ledger call saves, in order

ASSUME AccountAssumption == Batches \subseteq Seq(Keys) \ {<<>>}

\* No file, one not written to its end, one damaged from outside, or the whole array;
\* nothing here depends on the order of its records.
File == [kind : {"absent", "torn", "garbage", "whole"}, recs : SUBSET Keys]

Whole(recs) == [kind |-> "whole", recs |-> recs]
Absent == [kind |-> "absent", recs |-> {}]
Torn == [kind |-> "torn", recs |-> {}]
Garbage == [kind |-> "garbage", recs |-> {}]

VARIABLES
    mode,   \* VAULTPILOT_NON_EVM_STORAGE, the same for every process
    disk,   \* non-evm-accounts.json
    tmp,    \* the temporary file of every process
    proc,   \* what every process has in memory, and the operation it is in
    told,   \* what the user was last told of every account
    raced,  \* the processes whose operation met another one on the same account
    fresh   \* the processes that no other one has overwritten since they loaded

toldVars == <<told, raced>>
accountVars == <<mode, disk, tmp, proc, toldVars, fresh>>

Process ==
    [loaded : BOOLEAN,
     mem    : SUBSET Keys,
     op     : {"none", "save", "remove"},
     pc     : {"idle", "next", "open", "write", "rename"},
     todo   : Seq(Keys),                \* accounts still to save
     asked  : SUBSET Keys]              \* accounts the operation is about

Booted == [loaded |-> FALSE, mem |-> {}, op |-> "none", pc |-> "idle",
           todo |-> <<>>, asked |-> {}]

\* Nothing the user was told still binds.
Void == [k \in Keys |-> "unknown"]

\* An operation of p on accounts ks begins: what the user was told of them no
\* longer binds, nor will the answer to an operation that meets another.
Ask(p, ks) ==
    LET met == {q \in Processes \ {p} : proc[q].asked \cap ks # {}} IN
    /\ told' = [k \in Keys |-> IF k \in ks THEN "unknown" ELSE told[k]]
    /\ raced' = IF met = {} THEN raced \ {p} ELSE raced \cup met \cup {p}

\* Mutant: every process has the same temporary file.
TmpShared(p) == CHOOSE q \in Processes : TRUE

\* The path of the temporary file ends in the process id.
TmpOf(p) == p

\* saveAccount's filter and push.
Upsert(s, k) == s \cup {k}

\* loadFromDisk marks the store loaded, then reads: a file it cannot read or
\* parse counts as empty.  What an operation of p may find in memory:
LoadFromDisk(p) ==
    IF proc[p].loaded THEN {proc[p].mem}
    ELSE IF mode = "memory" \/ disk.kind # "whole" THEN {{}}
    ELSE {disk.recs, {}}

\* The load left accounts out that the file may hold.
Blind(p, mem) == ~proc[p].loaded /\ mode = "persist" /\ disk \notin {Absent, Whole(mem)}

\* A store loaded now is as fresh as its file, unless it is blind to it.
LoadedFresh(p, mem) ==
    IF proc[p].loaded THEN fresh
    ELSE IF Blind(p, mem) THEN fresh \ {p}
    ELSE fresh \cup {p}

\* At boot, before the server takes calls.
EagerInitStore(p) ==
    /\ mode = "persist"
    /\ proc[p].pc = "idle"
    /\ ~proc[p].loaded
    /\ \E mem \in LoadFromDisk(p) :
         /\ proc' = [proc EXCEPT ![p].loaded = TRUE, ![p].mem = mem]
         /\ fresh' = LoadedFresh(p, mem)
    /\ UNCHANGED <<mode, disk, tmp, toldVars>>

\* A pair_*_ledger call, once the device has shown the addresses.
Pair(p, batch) ==
    /\ proc[p].pc = "idle"
    /\ proc' = [proc EXCEPT ![p].op = "save", ![p].pc = "next", ![p].todo = batch,
                            ![p].asked = Range(batch)]
    /\ Ask(p, Range(batch))
    /\ UNCHANGED <<mode, disk, tmp, fresh>>

\* saveAccount, up to the write: memory changes first.
SaveAccount(p) ==
    /\ proc[p].pc = "next"
    /\ proc[p].todo # <<>>
    /\ \E mem \in LoadFromDisk(p) :
         /\ proc' = [proc EXCEPT
                       ![p].loaded = TRUE,
                       ![p].mem = Upsert(mem, Head(proc[p].todo)),
                       ![p].todo = Tail(@),
                       ![p].pc = IF mode = "memory" THEN "next" ELSE "open"]
         /\ fresh' = LoadedFresh(p, mem)
    /\ UNCHANGED <<mode, disk, tmp, toldVars>>

\* removeAccount, up to the write; nothing is written when it is not found.
RemoveAccount(p, k) ==
    /\ proc[p].pc = "idle"
    /\ \E mem \in LoadFromDisk(p) :
         /\ IF k \in mem
            THEN /\ proc' = [proc EXCEPT
                               ![p].loaded = TRUE, ![p].mem = mem \ {k},
                               ![p].op = "remove", ![p].asked = {k},
                               ![p].pc = IF mode = "memory" THEN "next" ELSE "open"]
                 /\ Ask(p, {k})
            ELSE /\ proc' = [proc EXCEPT ![p].loaded = TRUE, ![p].mem = mem]
                 /\ UNCHANGED toldVars
         /\ fresh' = LoadedFresh(p, mem)
    /\ UNCHANGED <<mode, disk, tmp>>

\* writeAtomic: the temporary file is truncated, then written to its end,
OpenTmp(p) ==
    /\ proc[p].pc = "open"
    /\ tmp' = [tmp EXCEPT ![TmpOf(p)] = Torn]
    /\ proc' = [proc EXCEPT ![p].pc = "write"]
    /\ UNCHANGED <<mode, disk, toldVars, fresh>>

WriteTmp(p) ==
    /\ proc[p].pc = "write"
    /\ tmp' = [tmp EXCEPT ![TmpOf(p)] = Whole(proc[p].mem)]
    /\ proc' = [proc EXCEPT ![p].pc = "rename"]
    /\ UNCHANGED <<mode, disk, toldVars, fresh>>

\* What the user was told is void once a process overwrites what it had not seen.
Overwrite(p) ==
    /\ fresh' = {p}
    /\ told' = IF p \in fresh THEN told ELSE Void

\* and renamed over the store.
Rename(p) ==
    /\ proc[p].pc = "rename"
    /\ tmp[TmpOf(p)] # Absent
    /\ disk' = tmp[TmpOf(p)]
    /\ tmp' = [tmp EXCEPT ![TmpOf(p)] = Absent]
    /\ proc' = [proc EXCEPT ![p].pc = "next"]
    /\ Overwrite(p)
    /\ UNCHANGED <<mode, raced>>

Done(p) == proc' = [proc EXCEPT ![p].op = "none", ![p].pc = "idle", ![p].todo = <<>>,
                                ![p].asked = {}]

\* Mutant: the error is logged and the operation goes on.
FileErrorSwallowed(p) ==
    /\ proc[p].pc \in {"open", "write", "rename"}
    /\ proc' = [proc EXCEPT ![p].pc = "next"]
    /\ UNCHANGED <<mode, disk, tmp, toldVars, fresh>>

\* Any of the file operations throws: memory stays ahead of the file, and the
\* accounts still to save are not saved.
FileError(p) ==
    /\ proc[p].pc \in {"open", "write", "rename"}
    /\ Done(p)
    /\ UNCHANGED <<mode, disk, tmp, toldVars, fresh>>

\* The answer binds: in memory mode it promises nothing.
Binds(p) == mode = "persist" /\ p \in fresh \ raced

\* The tool answers.
Answer(p) ==
    /\ proc[p].pc = "next"
    /\ proc[p].todo = <<>>
    /\ told' = [k \in Keys |-> IF k \in proc[p].asked /\ Binds(p)
                              THEN IF proc[p].op = "save" THEN "paired" ELSE "removed"
                              ELSE told[k]]
    /\ Done(p)
    /\ UNCHANGED <<mode, disk, tmp, raced, fresh>>

\* The process dies and another takes its place; a temporary file stays behind.
Crash(p) ==
    /\ proc[p] # Booted
    /\ proc' = [proc EXCEPT ![p] = Booted]
    /\ fresh' = fresh \ {p}
    /\ UNCHANGED <<mode, disk, tmp, toldVars>>

\* An editor, a failing disk, the user.
Damage ==
    /\ disk' \in {Garbage, Absent} \ {disk}
    /\ told' = Void
    /\ fresh' = {}
    /\ UNCHANGED <<mode, tmp, proc, raced>>

\* An earlier process may have left the accounts of one pairing.
AccountsInit ==
    /\ mode \in {"persist", "memory"}
    /\ disk \in {Absent} \cup {Whole(Range(batch)) : batch \in Batches}
    /\ tmp = [p \in Processes |-> Absent]
    /\ proc = [p \in Processes |-> Booted]
    /\ raced = {}
    /\ told = Void
    /\ fresh = {}

AccountsNext ==
    \/ \E p \in Processes :
         \/ EagerInitStore(p)
         \/ \E batch \in Batches : Pair(p, batch)
         \/ SaveAccount(p)
         \/ \E k \in Keys : RemoveAccount(p, k)
         \/ OpenTmp(p) \/ WriteTmp(p) \/ Rename(p) \/ FileError(p)
         \/ Answer(p)
         \/ Crash(p)
    \/ Damage

AccountsSpec == AccountsInit /\ [][AccountsNext]_accountVars

-----------------------------------------------------------------------------
(* Properties                                                               *)

AccountsTypeOK ==
    /\ mode \in {"persist", "memory"}
    /\ disk \in File
    /\ tmp \in [Processes -> File]
    /\ proc \in [Processes -> Process]
    /\ raced \subseteq Processes
    /\ told \in [Keys -> {"unknown", "paired", "removed"}]
    /\ fresh \subseteq Processes

\* The store is never found half written, though processes die between the steps
\* of a write and two may write at once.
DiskIsWhole == disk # Torn

\* What pair_*_ledger and remove_paired_non_evm_account answered is in the file,
\* so that it survives every crash, restart and failed write: until the file is
\* damaged, or overwritten by a process that had not seen it.
AnsweredIsDurable ==
    \A k \in Keys :
        /\ told[k] = "paired" => k \in disk.recs
        /\ told[k] = "removed" => k \notin disk.recs
=============================================================================
