------------------------------- MODULE ItBoot -------------------------------
(***************************************************************************)
(* Guest-package delivery: the loader contrib/it-boot/it_boot.c, run at    *)
(* every boot and again on request, against the host of GuestPackage, an   *)
(* app that rewrites the offered directory while it is being read, and     *)
(* power that may fail between any two steps.                              *)
(*                                                                         *)
(* The disk keeps every completed step: files are synced and moved into    *)
(* place with rename.  A symlink flip, a payload transfer, a hook copy and *)
(* the state save may each fail.  The jobs of a package run until they are *)
(* unloaded or the power fails.                                            *)
(***************************************************************************)
EXTENDS GuestPackage, FiniteSets, Functions

CONSTANTS
    Targets,      \* system files a package may hook
    HooksOf,      \* [Serials -> SUBSET Targets]
    Absent,       \* the targets the stock system does not have
    SHA,          \* CommonCrypto is there: checksums are compared
    MAX_TRIES,    \* boots without a verdict before reverting
    MAX_SERIALS,  \* length of the list of bad serials
    MaxRuns, MaxCrashes, MaxEdits  \* bounds on boots, power failures, app edits

ASSUME ItBootAssumption ==
    /\ Serials \subseteq Nat \ {0} /\ {1, 2, 3} \subseteq Serials
    /\ HooksOf \in [Serials -> SUBSET Targets]
    /\ Absent \subseteq Targets
    /\ Cardinality(Entries) \in Nat /\ Entries = 0..(Cardinality(Entries) - 1)
    /\ MAX_TRIES \in Nat \ {0} /\ MAX_SERIALS \in Nat \ {0} /\ SHA \in BOOLEAN

VARIABLES
    \* the disk
    pkgs,         \* ROOT/pkgs: what each package's payloads hold
    stage,        \* ROOT/pkgs/<serial>.tmp
    current,      \* ROOT/current
    state,        \* ROOT/state
    sys,          \* the hook targets
    baked,        \* their .baked and .baked-absent files
    \* the running system
    readonly,     \* the root is mounted read-only
    pc, st, cur, start, pieces, verdict, result, todo,
    loaded,       \* the packages whose jobs launchd runs
    \* history
    trouble,      \* a flip or a hook copy failed in this boot
    saves,        \* recorded runs of current since it last moved
    runs, crashes, edits

disk == <<pkgs, stage, current, state, sys, baked>>
proc == <<st, cur, start, pieces, verdict, result, todo>>
ghost == <<trouble, saves>>
count == <<runs, crashes, edits>>
vars == <<dir, host, disk, readonly, pc, proc, loaded, ghost, count>>

NoSerial == -1
Stock == 0        \* the content of a target the system came with
Gone == -1        \* no file, or the mark that there was none

Steps == Windows * Cardinality(Entries)

ASSUME OffersAssumption ==
    \A o \in Offers : /\ o.serial \in Serials \cup {0, NoSerial}
                      /\ o.good \subseteq Serials /\ o.bad \in Seq(Serials)

ASSUME NoneAssumption == None \notin {Stock, Gone} \cup [1..Steps -> Serials]

State == [seed: Serials \cup {NoSerial}, previous: Serials \cup {NoSerial},
          good: Serials \cup {NoSerial}, tries: 0..MAX_TRIES,
          bad: Seq(Serials), hooks: SUBSET Targets]
Blank == [seed |-> NoSerial, previous |-> NoSerial, good |-> NoSerial,
          tries |-> 0, bad |-> <<>>, hooks |-> {}]

(* The results of a run: R_INSTALLED and R_SWITCHED are one, and so are    *)
(* the errors of install and flip.                                         *)
Results == {"unchanged", "moved", "reverted_bad", "reverted_tries", "refused", "read_only",
            "einval", "enoent", "enoexec", "failed"}

Whole(s) == [k \in 1..Steps |-> s]
Malformed(o) == o.serial = NoSerial

-----------------------------------------------------------------------------
(* pkg_ok: the package's own record is there and its files have the        *)
(* recorded sizes.                                                         *)
pkg_ok(s) == s \in Serials /\ pkgs[s] # None

(* in_list, add_bad: the list of bad serials, the oldest evicted.          *)
add_bad(bad, s) ==
    IF s \in Range(bad) THEN bad
    ELSE Append(IF Len(bad) = MAX_SERIALS THEN Tail(bad) ELSE bad, s)

(* The serials of a list entered one by one, but for those in Skip.        *)
Entered(bad, list, Skip) ==
    LET after[n \in 0..Len(list)] ==
            IF n = 0 THEN bad
            ELSE IF list[n] \in Skip THEN after[n - 1] ELSE add_bad(after[n - 1], list[n])
    IN after[Len(list)]

(* revert_target: where to go back to from package c, or NoSerial.         *)
revert_target(z, c) ==
    LET Usable(s) == s # c /\ s \notin Range(z.bad) /\ pkg_ok(s)
    IN IF Usable(z.previous) THEN z.previous
       ELSE IF Usable(z.good) THEN z.good
       ELSE IF Usable(z.seed) THEN z.seed ELSE NoSerial

(* flip: current is moved to s by renaming a symlink; ok says whether it   *)
(* was.  A move starts a new count of runs.                                *)
flip(s, ok) ==
    /\ ok \in BOOLEAN
    /\ current' = IF ok THEN s ELSE current
    /\ trouble' = (trouble \/ ~ok)
    /\ saves' = IF ok THEN 0 ELSE saves
NoFlip == UNCHANGED <<current, ghost>>

Goto(label) == pc' = label
offer == Head(pieces)
Host(call) == call /\ UNCHANGED dir
Quiet == UNCHANGED <<dir, host, readonly, count>>

-----------------------------------------------------------------------------
(* The devices the loader meets: prepared with a seed, never prepared,     *)
(* with a current package that lost its record, and updated to a package   *)
(* the host called good.                                                   *)
Original(t) == IF t \in Absent THEN Gone ELSE Stock
Prepared == [Blank EXCEPT !.seed = 1]
Updated == [Prepared EXCEPT !.previous = 1, !.good = 3, !.hooks = HooksOf[3]]
OnDisk(S) == pkgs = [s \in Serials |-> IF s \in S THEN Whole(s) ELSE None]
Init ==
    /\ HostInit
    /\ dir \in [offer: Offers \cup {None}, payload: {[i \in Entries |-> 2]}]
    /\ \/ state = Prepared /\ current = 1 /\ OnDisk({1})
       \/ state = None /\ current = NoSerial /\ OnDisk({})
       \/ state = Prepared /\ current = 2 /\ OnDisk({1})
       \/ state = Updated /\ current = 3 /\ OnDisk({1, 3})
    /\ LET Hooked(t) == state = Updated /\ t \in HooksOf[3]
       IN /\ sys = [t \in Targets |-> IF Hooked(t) THEN 3 ELSE Original(t)]
          /\ baked = [t \in Targets |-> IF Hooked(t) THEN Original(t) ELSE None]
    /\ stage = None
    /\ readonly \in BOOLEAN /\ pc = "off"
    /\ st = Blank /\ cur = NoSerial /\ start = NoSerial /\ pieces = <<>>
    /\ verdict = FALSE /\ result = "unchanged" /\ todo = {}
    /\ loaded = {}
    /\ trouble = FALSE /\ saves = 0
    /\ runs = 0 /\ crashes = 0 /\ edits = 0

(* The app replaces a file of the offered directory.                       *)
Edit ==
    /\ edits < MaxEdits /\ edits' = edits + 1
    /\ \/ \E o \in Offers \cup {None} : WriteOffer(o)
       \/ \E i \in Entries, v \in Serials \cup {None} : WritePayload(i, v)
    /\ UNCHANGED <<host, disk, readonly, pc, proc, loaded, ghost, runs, crashes>>

(* The guest boots, or the agent runs the loader again.  A boot resets the *)
(* machine and with it the host's side.                                    *)
Begin ==
    /\ pc \in {"off", "done"}
    /\ runs < MaxRuns /\ runs' = runs + 1
    /\ Host(IF pc = "off" THEN PkgReset ELSE UNCHANGED host)
    /\ trouble' = (pc = "done" /\ trouble)
    /\ pieces' = <<>> /\ verdict' = FALSE /\ result' = "unchanged"
    /\ Goto("start")
    /\ UNCHANGED <<disk, readonly, st, cur, start, todo, loaded, saves, crashes, edits>>

(* The power fails, or the guest panics: launchd, the jobs and the loader  *)
(* are gone, the disk is as it was.                                        *)
Crash ==
    /\ pc # "off" /\ crashes < MaxCrashes /\ crashes' = crashes + 1
    /\ st' = Blank /\ cur' = NoSerial /\ start' = NoSerial /\ pieces' = <<>>
    /\ verdict' = FALSE /\ result' = "unchanged" /\ todo' = {} /\ loaded' = {}
    /\ Goto("off")
    /\ UNCHANGED <<dir, host, disk, readonly, ghost, runs, edits>>

(* it_boot_run up to the pull on a read-only root.                         *)
StartReadOnly ==
    /\ pc = "start" /\ readonly
    /\ cur' = (IF pkg_ok(current) THEN current ELSE NoSerial)
    /\ start' = cur' /\ result' = "read_only"
    /\ Goto("pull")
    /\ Quiet /\ UNCHANGED <<disk, ghost, loaded, st, pieces, verdict, todo>>

(* it_boot_run up to the pull: staging directories are removed, the state  *)
(* is loaded, and an unusable current goes back to the seed.               *)
Start ==
    /\ pc = "start" /\ ~readonly
    /\ stage' = None
    /\ LET z == IF state = None THEN Blank ELSE state
       IN /\ \/ /\ pkg_ok(current) /\ cur' = current
                /\ NoFlip
             \/ /\ ~pkg_ok(current) /\ pkg_ok(z.seed)
                /\ \E ok \in BOOLEAN : flip(z.seed, ok) /\ cur' = IF ok THEN z.seed ELSE NoSerial
             \/ ~pkg_ok(current) /\ ~pkg_ok(z.seed) /\ cur' = NoSerial /\ NoFlip
          /\ st' = IF state = None THEN [z EXCEPT !.seed = cur'] ELSE z
    /\ start' = cur'
    /\ Goto("pull")
    /\ Quiet /\ UNCHANGED <<pkgs, state, sys, baked, loaded, pieces, verdict, result, todo>>

(* pull_offer: the size, which makes the host read the offer again, then   *)
(* the windows.  A host without an offer is silent.                        *)
PullSize ==
    /\ pc = "pull"
    /\ \E r \in BOOLEAN : Host(OfferSize(r)) /\ Goto(IF r THEN "window" ELSE "hooks")
    /\ UNCHANGED <<disk, readonly, proc, loaded, ghost, count>>

PullWindow ==
    /\ pc = "window"
    /\ \E r \in Offers \cup {None} :
         /\ Host(OfferWindow(r))
         /\ pieces' = IF r = None THEN <<>> ELSE Append(pieces, r)
         /\ Goto(IF r = None THEN "hooks"
                 ELSE IF Len(pieces) + 1 < Windows THEN "window"
                 ELSE IF readonly THEN "hooks" ELSE "judge")
    /\ UNCHANGED <<disk, readonly, st, cur, start, verdict, result, todo, loaded, ghost, count>>

(* parse_offer refuses a malformed offer.                                  *)
JudgeMalformed ==
    /\ pc = "judge" /\ Malformed(offer)
    /\ result' = "einval"
    /\ Goto("hooks")
    /\ Quiet /\ UNCHANGED <<disk, st, cur, start, pieces, verdict, todo, loaded, ghost>>

(* Mutant: the seed can be made bad.                                       *)
VerdictsOnSeed ==
    LET z == IF cur \in offer.good THEN [st EXCEPT !.good = cur, !.tries = 0] ELSE st
    IN [z EXCEPT !.bad = Entered(@, offer.bad, {})]

(* Mutant: a package once called good stays good.                          *)
VerdictsKeepGood ==
    LET z == IF cur \in offer.good THEN [st EXCEPT !.good = cur, !.tries = 0] ELSE st
    IN [z EXCEPT !.bad = Entered(@, offer.bad, {z.seed, z.good})]

(* The verdicts of the offer, entered into the state; the seed is not made *)
(* bad.                                                                    *)
Verdicts ==
    LET z == IF cur \in offer.good THEN [st EXCEPT !.good = cur, !.tries = 0] ELSE st
    IN [z EXCEPT !.bad = Entered(@, offer.bad, {z.seed})]

(* The host's verdicts: a current package judged bad is reverted.          *)
Judge ==
    /\ pc = "judge" /\ ~Malformed(offer)
    /\ LET z == Verdicts
           back == revert_target(z, cur)
       IN \/ /\ cur \notin Range(z.bad)
             /\ st' = z /\ verdict' = (cur \in offer.good)
             /\ NoFlip /\ UNCHANGED <<cur, result>>
          \/ /\ cur \in Range(z.bad) /\ back # NoSerial /\ verdict' = TRUE
             /\ \E ok \in BOOLEAN :
                  /\ flip(back, ok)
                  /\ cur' = IF ok THEN back ELSE cur
                  /\ st' = IF ok THEN [z EXCEPT !.tries = 0] ELSE z
                  /\ result' = IF ok THEN "reverted_bad" ELSE "enoent"
          \/ /\ cur \in Range(z.bad) /\ back = NoSerial /\ verdict' = TRUE
             /\ st' = z /\ result' = "enoent"
             /\ NoFlip /\ UNCHANGED cur
    /\ Goto("choose")
    /\ Quiet /\ UNCHANGED <<pkgs, stage, state, sys, baked, start, pieces, todo, loaded>>

(* The package to move to: the offered one, or the seed in safe mode.      *)
want == IF offer.serial = 0 THEN st.seed ELSE offer.serial

(* Whether to move at all, and whether the package must be fetched.        *)
Choose ==
    /\ pc = "choose"
    /\ LET stay == want = NoSerial \/ want = cur
           refused == want \in Range(st.bad)
           foreign == offer.serial # 0 /\ ~offer.build
           fetch == ~pkg_ok(want) /\ offer.serial # 0
       IN /\ Goto(IF stay \/ refused \/ foreign THEN "limit"
                  ELSE IF pkg_ok(want) THEN "flip" ELSE IF fetch THEN "fetch" ELSE "limit")
          /\ stage' = IF pc' = "fetch" THEN [serial |-> want, got |-> <<>>] ELSE stage
          /\ result' = IF stay THEN result
                       ELSE IF refused THEN IF result = "unchanged" THEN "refused" ELSE result
                       ELSE IF foreign THEN "enoexec"
                       ELSE IF pc' = "limit" THEN "enoent" ELSE result
    /\ Quiet /\ UNCHANGED <<pkgs, current, state, sys, baked, st, cur, start, pieces, verdict, todo, loaded, ghost>>

(* Mutant: no checksum.                                                    *)
FetchedAny(got) == TRUE

(* fetch: one window of a payload, the size call that precedes the first   *)
(* one taken with it; after the last the checksum.                         *)
Fetched(got) ==
    SHA /\ Len(got) % Windows = 0 => \A k \in (Len(got) - Windows + 1)..Len(got) : got[k] = want
Fetch ==
    /\ pc = "fetch" /\ Len(stage.got) < Steps
    /\ \E r \in Serials :
         /\ Host(Read(Len(stage.got) \div Windows, r))
         /\ Fetched(Append(stage.got, r))
         /\ stage' = [stage EXCEPT !.got = Append(@, r)]
    /\ UNCHANGED <<pkgs, current, state, sys, baked, readonly, pc, proc, loaded, ghost, count>>

(* A transfer that fails: the host's error, the clock, a wrong size or     *)
(* checksum, a full disk.  The staging directory goes.                     *)
FetchFails ==
    /\ pc = "fetch"
    /\ \/ Len(stage.got) = Steps /\ UNCHANGED <<dir, host>>
       \/ /\ Len(stage.got) < Steps
          /\ \E r \in Serials \cup {None} : Host(Read(Len(stage.got) \div Windows, r))
    /\ stage' = None /\ result' = "failed"
    /\ Goto("limit")
    /\ UNCHANGED <<pkgs, current, state, sys, baked, readonly, st, cur, start, pieces, verdict, todo, loaded, ghost, count>>

(* install: the record is written and the staging directory renamed.       *)
Install ==
    /\ pc = "fetch" /\ Len(stage.got) = Steps
    /\ pkgs' = [pkgs EXCEPT ![want] = stage.got]
    /\ stage' = None
    /\ Goto("flip")
    /\ Quiet /\ UNCHANGED <<current, state, sys, baked, proc, loaded, ghost>>

(* The move to the package now on disk, and the bookkeeping it brings.     *)
Moved == [st EXCEPT !.previous = IF cur # NoSerial /\ cur \notin Range(st.bad) THEN cur ELSE @,
                    !.tries = IF want \in {st.seed, st.good} THEN 0 ELSE 1]
Move ==
    /\ pc = "flip"
    /\ \E ok \in BOOLEAN :
         /\ flip(want, ok)
         /\ st' = IF ok THEN Moved ELSE st
         /\ cur' = IF ok THEN want ELSE cur
         /\ verdict' = (ok \/ verdict)
         /\ result' = IF ~ok THEN "failed" ELSE IF result = "unchanged" THEN "moved" ELSE result
    /\ Goto("limit")
    /\ Quiet /\ UNCHANGED <<pkgs, stage, state, sys, baked, start, pieces, todo, loaded>>

(* A package judged before the move to it, and the retry limit of one that *)
(* never was.                                                              *)
Limit ==
    /\ pc = "limit"
    /\ LET z == IF cur \in offer.good THEN [st EXCEPT !.good = cur, !.tries = 0] ELSE st
           never == ~verdict /\ cur # NoSerial /\ cur \notin {z.seed, z.good}
           back == revert_target(z, cur)
       IN \/ /\ never /\ z.tries >= MAX_TRIES /\ back # NoSerial
             /\ \E ok \in BOOLEAN :
                  /\ flip(back, ok)
                  /\ st' = IF ok THEN [z EXCEPT !.bad = add_bad(@, cur), !.tries = 0] ELSE z
                  /\ cur' = IF ok THEN back ELSE cur
                  /\ result' = IF ok THEN "reverted_tries" ELSE result
          \/ /\ ~(never /\ z.tries >= MAX_TRIES /\ back # NoSerial)
             /\ st' = IF never /\ z.tries < MAX_TRIES THEN [z EXCEPT !.tries = @ + 1] ELSE z
             /\ NoFlip /\ UNCHANGED <<cur, result>>
    /\ Goto("hooks")
    /\ Quiet /\ UNCHANGED <<pkgs, stage, state, sys, baked, start, pieces, verdict, todo, loaded>>

-----------------------------------------------------------------------------
(* apply_hooks: the targets of the package are remembered, in memory, then *)
(* each remembered target is put right.                                    *)
ApplyHooks ==
    /\ pc = "hooks"
    /\ IF readonly \/ cur = NoSerial THEN UNCHANGED <<st, todo>>
       ELSE /\ st' = [st EXCEPT !.hooks = @ \cup HooksOf[cur]]
            /\ todo' = st'.hooks
    /\ Goto("hook")
    /\ Quiet /\ UNCHANGED <<disk, cur, start, pieces, verdict, result, loaded, ghost>>

(* Mutant: whatever is about to be replaced is kept.                       *)
NeedsBackupAgain(t) == t \in HooksOf[cur] /\ baked[t] # sys[t] /\ sys[t] # cur

(* The original is kept before the target is first replaced, as a copy or  *)
(* as a mark that there was none.                                          *)
NeedsBackup(t) == t \in HooksOf[cur] /\ baked[t] = None
Backup(t) ==
    /\ pc = "hook" /\ t \in todo /\ NeedsBackup(t)
    /\ baked' = [baked EXCEPT ![t] = sys[t]]
    /\ Quiet /\ UNCHANGED <<pkgs, stage, current, state, sys, pc, proc, loaded, ghost>>

(* What a remembered target should hold: the package's file, or what was   *)
(* there before any package.                                               *)
Content(t) ==
    IF t \in HooksOf[cur] THEN cur ELSE IF baked[t] = None THEN sys[t] ELSE baked[t]
SwapHook(t) ==
    /\ pc = "hook" /\ t \in todo /\ ~NeedsBackup(t)
    /\ sys' = [sys EXCEPT ![t] = Content(t)]
    /\ todo' = todo \ {t}
    /\ Quiet /\ UNCHANGED <<pkgs, stage, current, state, baked, pc, st, cur, start, pieces, verdict, result, loaded, ghost>>

(* A backup or a copy that fails: the target is skipped.                   *)
SkipHook(t) ==
    /\ pc = "hook" /\ t \in todo /\ (NeedsBackup(t) \/ sys[t] # Content(t))
    /\ todo' = todo \ {t} /\ trouble' = TRUE
    /\ Quiet /\ UNCHANGED <<disk, pc, st, cur, start, pieces, verdict, result, loaded, saves>>

(* Mutant: nothing is unloaded.                                            *)
JobsPileUp ==
    /\ pc = "hook" /\ todo = {}
    /\ loaded' = loaded \cup ({cur} \ {NoSerial})
    /\ Goto(IF readonly THEN "report" ELSE "save")
    /\ Quiet /\ UNCHANGED <<disk, proc, ghost>>

(* jobs: the package that was current is unloaded, the one that is loaded. *)
Jobs ==
    /\ pc = "hook" /\ todo = {}
    /\ loaded' = (loaded \ (IF start # cur THEN {start} ELSE {})) \cup ({cur} \ {NoSerial})
    /\ Goto(IF readonly THEN "report" ELSE "save")
    /\ Quiet /\ UNCHANGED <<disk, proc, ghost>>

(* save_state, which may fail.  Recorded runs of a package nobody judged   *)
(* are counted, not the one that went back to it.                          *)
Unjudged ==
    /\ pieces # <<>> /\ ~Malformed(offer) /\ ~trouble
    /\ result \notin {"reverted_bad", "reverted_tries"}
    /\ cur \notin {NoSerial, st.seed, st.good} \cup Range(st.bad)
Save ==
    /\ pc = "save"
    /\ \/ state' = st /\ saves' = IF Unjudged THEN saves + 1 ELSE saves
       \/ UNCHANGED <<state, saves>>
    /\ Goto("report")
    /\ Quiet /\ UNCHANGED <<pkgs, stage, current, sys, baked, proc, loaded, trouble>>

(* QC_PKG_REPORT, when there was an offer.                                 *)
Tell ==
    /\ pc = "report"
    /\ IF pieces = <<>> THEN UNCHANGED host
       ELSE Report(IF cur = NoSerial THEN 0 ELSE cur, result)
    /\ Goto("done")
    /\ UNCHANGED <<dir, disk, readonly, proc, loaded, ghost, count>>

Loader ==
    \/ StartReadOnly \/ Start \/ PullSize \/ PullWindow \/ JudgeMalformed \/ Judge
    \/ Choose \/ Fetch \/ FetchFails \/ Install \/ Move \/ Limit
    \/ ApplyHooks \/ Jobs \/ Save \/ Tell
    \/ \E t \in Targets : Backup(t) \/ SwapHook(t) \/ SkipHook(t)

Next == Edit \/ Begin \/ Crash \/ Loader
Spec == Init /\ [][Next]_vars

-----------------------------------------------------------------------------
Judged == pieces # <<>> /\ ~readonly /\ ~Malformed(offer)

TypeOK ==
    /\ HostTypeOK
    /\ pkgs \in [Serials -> [1..Steps -> Serials] \cup {None}]
    /\ stage = None \/ (stage.serial \in Serials /\ stage.got \in Seq(Serials) /\ Len(stage.got) <= Steps)
    /\ current \in Serials \cup {NoSerial}
    /\ state \in State \cup {None} /\ st \in State
    /\ Len(st.bad) <= MAX_SERIALS /\ (state # None => Len(state.bad) <= MAX_SERIALS)
    /\ sys \in [Targets -> Serials \cup {Stock, Gone}]
    /\ baked \in [Targets -> Serials \cup {Stock, Gone, None}]
    /\ cur \in Serials \cup {NoSerial} /\ start \in Serials \cup {NoSerial}
    /\ loaded \subseteq Serials /\ todo \subseteq Targets
    /\ pieces \in Seq(Offers) /\ Len(pieces) <= Windows
    /\ result \in Results /\ (last # None => last.result \in Results)

(* An offer pulled in windows is one offer, whatever the app writes in     *)
(* between and whatever was pulled before (the snapshot of QC_PKG_OFFER).  *)
OfferWhole == \A i, j \in DOMAIN pieces : pieces[i] = pieces[j]

(* A package on disk holds the payloads its own record names, whatever the *)
(* app wrote during the transfer and wherever the power failed (install:   *)
(* fetch, checksum, record, rename), if checksums can be computed.         *)
PackageWhole == SHA => \A s \in Serials : pkgs[s] # None => pkgs[s] = Whole(s)

(* After a run the jobs of the usable package that current names run, and  *)
(* no others (start and cur in it_boot_run); every target on the hook list *)
(* holds the current package's file if that package hooks it, the original *)
(* otherwise; and the report the app reads names that package, across      *)
(* reboots, silent hosts and reruns (guest_pkg_last_report).               *)
RunsCurrent ==
    /\ pc = "done" /\ ~trouble => loaded = {s \in {current} : pkg_ok(s)}
    /\ pc = "report" /\ ~readonly /\ ~trouble /\ cur # NoSerial =>
          \A t \in st.hooks : sys[t] = IF t \in HooksOf[cur] THEN cur ELSE Original(t)
    /\ pc = "done" /\ ~trouble /\ last # None =>
          last.serial = IF pkg_ok(current) THEN current ELSE 0

(* A package is not kept that should be left, unless nothing is left to go *)
(* back to: after a run that saw the host call it bad it is not current,   *)
(* if it is not the seed; and one the host never judges has at most        *)
(* MAX_TRIES recorded runs in a row (st.tries).                            *)
BadIsLeft ==
    /\ pc = "done" /\ Judged /\ ~trouble /\ cur \in Range(offer.bad) \ {st.seed}
          => revert_target(st, cur) = NoSerial
    /\ pc = "report" /\ saves > MAX_TRIES => revert_target(st, cur) = NoSerial

(* The seed of the saved state stays usable and is never on its bad list:  *)
(* there is always a floor ("the seed is the floor; it cannot go"); and    *)
(* the list never outgrows MAX_SERIALS (add_bad).                          *)
SeedIsFloor ==
    /\ TypeOK
    /\ state # None /\ state.seed # NoSerial =>
          pkg_ok(state.seed) /\ state.seed \notin Range(state.bad)

(* The backup of a hooked target is the stock file, or the mark that there *)
(* was none, through any sequence of packages, crashes and failed copies.  *)
BackupIsOriginal == \A t \in Targets : baked[t] \in {None, Original(t)}

(* "remember every target ever hooked": after a run every target the       *)
(* current package does not hook holds the original.                       *)
EveryHookRemembered ==
    pc = "report" /\ ~readonly /\ ~trouble /\ cur # NoSerial =>
        \A t \in Targets \ HooksOf[cur] : sys[t] = Original(t)
=============================================================================
