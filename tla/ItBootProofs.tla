---------------------------- MODULE ItBootProofs ----------------------------
(***************************************************************************)
(* Theorems about ItBoot, for any packages, offers, hook targets and       *)
(* limits, any app and power failures at any step.                         *)
(***************************************************************************)
EXTENDS ItBoot, WellFoundedInduction, TLAPS

(* What a sequence is.                                                     *)
LEMMA SeqIs ==
    ASSUME NEW S, NEW s \in Seq(S)
    PROVE  /\ Len(s) \in Nat /\ DOMAIN s = 1..Len(s) /\ s \in [1..Len(s) -> S]
           /\ \A i \in 1..Len(s) : s[i] \in S
OBVIOUS

(* One more element at the end.                                            *)
LEMMA AppendIs ==
    ASSUME NEW S, NEW s \in Seq(S), NEW x \in S
    PROVE  /\ Append(s, x) \in Seq(S) /\ Append(s, x) # << >> /\ Len(Append(s, x)) = Len(s) + 1
           /\ Append(s, x)[Len(s) + 1] = x
           /\ \A i \in 1..Len(s) : Append(s, x)[i] = s[i]
OBVIOUS

(* A target without a backup was never replaced.                           *)
Kept ==
    /\ baked = [t \in Targets |-> baked[t]] /\ sys = [t \in Targets |-> sys[t]]
    /\ \A t \in Targets : \/ baked[t] = Original(t)
                          \/ baked[t] = None /\ sys[t] = Original(t)

(* The devices the loader meets have their originals.                      *)
LEMMA KeptInit == Init => Kept
<1> SUFFICES ASSUME Init PROVE Kept
  OBVIOUS
<1> DEFINE Hooked(t) == state = Updated /\ t \in HooksOf[3]
<1>1. /\ sys = [t \in Targets |-> IF Hooked(t) THEN 3 ELSE Original(t)]
      /\ baked = [t \in Targets |-> IF Hooked(t) THEN Original(t) ELSE None]
  BY DEF Init
<1> HIDE DEF Hooked
<1>2. QED
  BY <1>1 DEF Kept

(* The original is what a first backup keeps: apply_hooks copies a target  *)
(* that has no backup before it replaces it.                               *)
LEMMA KeptBackup == ASSUME Kept, NEW t \in Targets, Backup(t) PROVE Kept'
<1>1. baked[t] = None /\ baked' = [baked EXCEPT ![t] = sys[t]] /\ sys' = sys
  BY DEF Backup, NeedsBackup
<1>2. Original(t) # None
  BY NoneAssumption DEF Original
<1>3. sys[t] = Original(t)
  BY <1>1, <1>2 DEF Kept
<1>4. QED
  BY <1>1, <1>3 DEF Kept, Original

(* A target is replaced only when it has a backup, and is restored from it.*)
LEMMA KeptSwap == ASSUME Kept, NEW t \in Targets, SwapHook(t) PROVE Kept'
<1>1. ~NeedsBackup(t) /\ sys' = [sys EXCEPT ![t] = Content(t)] /\ baked' = baked
  BY DEF SwapHook
<1>2. baked[t] = None => sys'[t] = sys[t]
  BY <1>1 DEF NeedsBackup, Content, Kept
<1>3. \A u \in Targets : u # t => sys'[u] = sys[u]
  BY <1>1 DEF Kept
<1>4. sys' = [u \in Targets |-> sys'[u]]
  BY <1>1 DEF Kept
<1>5. QED
  BY <1>1, <1>2, <1>3, <1>4 DEF Kept, Original

(* Every step keeps it; only hooking touches the targets and the backups.  *)
LEMMA KeptNext == Kept /\ [Next]_vars => Kept'
<1> SUFFICES ASSUME Kept, [Next]_vars PROVE Kept'
  OBVIOUS
<1>1. ASSUME UNCHANGED <<sys, baked>> PROVE Kept'
  BY <1>1 DEF Kept, Original
<1>2. CASE Edit
  BY <1>1, <1>2 DEF Edit, disk
<1>3. CASE Begin
  BY <1>1, <1>3 DEF Begin, disk
<1>4. CASE Crash
  BY <1>1, <1>4 DEF Crash, disk
<1>5. CASE StartReadOnly \/ Start \/ PullSize \/ PullWindow
  BY <1>1, <1>5 DEF StartReadOnly, Start, PullSize, PullWindow, disk
<1>6. CASE JudgeMalformed \/ Judge \/ Choose
  BY <1>1, <1>6 DEF JudgeMalformed, Judge, Choose, disk
<1>7. CASE Fetch \/ FetchFails \/ Install \/ Move \/ Limit
  BY <1>1, <1>7 DEF Fetch, FetchFails, Install, Move, Limit, disk
<1>8. CASE ApplyHooks \/ Jobs \/ Save \/ Tell
  BY <1>1, <1>8 DEF ApplyHooks, Jobs, Save, Tell, disk
<1>9. ASSUME NEW t \in Targets, Backup(t) PROVE Kept'
  BY <1>9, KeptBackup
<1>10. ASSUME NEW t \in Targets, SwapHook(t) PROVE Kept'
  BY <1>10, KeptSwap
<1>11. ASSUME NEW t \in Targets, SkipHook(t) PROVE Kept'
  BY <1>1, <1>11 DEF SkipHook, disk
<1>12. CASE UNCHANGED vars
  BY <1>1, <1>12 DEF vars, disk
<1>13. QED
  BY <1>2, <1>3, <1>4, <1>5, <1>6, <1>7, <1>8, <1>9, <1>10, <1>11, <1>12 DEF Next, Loader

(* Whatever sequence of packages is installed, moved to and left, and      *)
(* wherever the power fails, the backup of a hook target is the file the   *)
(* system came with, or the mark that there was none (apply_hooks).        *)
THEOREM BackupKept == Spec => []BackupIsOriginal
<1>1. Init => Kept
  BY KeptInit
<1>2. Kept /\ [Next]_vars => Kept'
  BY KeptNext
<1>3. Kept => BackupIsOriginal
  BY DEF Kept, BackupIsOriginal
<1>4. QED
  BY <1>1, <1>2, <1>3, PTL DEF Spec

-----------------------------------------------------------------------------
(* The staging directory of a transfer: the payloads that are complete     *)
(* have passed their checksum.                                             *)
Got == stage.got
Checked(n) == n - (n % Windows)
Staged ==
    pc = "fetch" =>
        /\ Got \in Seq(Serials) /\ Len(Got) <= Steps
        /\ stage = [serial |-> stage.serial, got |-> Got]
        /\ SHA => \A k \in 1..Checked(Len(Got)) : Got[k] = want
AllWhole == PackageWhole /\ pkgs = [s \in Serials |-> pkgs[s]] /\ Staged

(* A package has a whole number of payloads of Windows windows each.       *)
LEMMA StepsWhole == Steps \in Nat /\ Checked(Steps) = Steps
<1>1. Cardinality(Entries) \in Nat
  BY ItBootAssumption DEF ItBootAssumption
<1>2. QED
  BY <1>1 DEF Steps, Checked, Windows

(* Whatever the host and the app do, a window keeps the complete payloads  *)
(* right: the last window of one is taken only if its checksum matches.    *)
LEMMA FetchStaged == ASSUME Staged, Fetch PROVE Staged'
<1> DEFINE n == Len(Got)
<1>1. PICK r \in Serials : /\ Fetched(Append(Got, r))
                           /\ stage' = [stage EXCEPT !.got = Append(Got, r)]
  BY Zenon DEF Fetch, Got
<1>2. /\ pc = "fetch" /\ n < Steps /\ Got \in Seq(Serials)
      /\ stage = [serial |-> stage.serial, got |-> Got]
      /\ SHA => \A k \in 1..Checked(n) : Got[k] = want
  BY DEF Fetch, Staged, Got
<1>3. stage' = [serial |-> stage.serial, got |-> Append(Got, r)] /\ Got' = Append(Got, r)
  BY <1>1, <1>2 DEF Got
<1>4. want' = want /\ pc' = pc
  BY DEF Fetch, want, offer, proc
<1>5. n \in Nat /\ Got' \in Seq(Serials) /\ Len(Got') = n + 1
  BY <1>2, <1>3
<1>6. Len(Got') <= Steps
  BY <1>2, <1>5, StepsWhole
<1>7. ASSUME SHA, NEW k \in 1..Checked(n + 1) PROVE Got'[k] = want
  <2>1. k \in 1..(n + 1)
    BY <1>5 DEF Checked, Windows
  <2>2. CASE k <= Checked(n)
    <3>1. k \in 1..n
      BY <1>5, <2>1, <2>2 DEF Checked, Windows
    <3>2. Got'[k] = Got[k]
      BY <1>2, <1>3, <3>1
    <3>3. QED
      BY <1>2, <1>7, <2>1, <2>2, <3>2, <1>5 DEF Checked, Windows
  <2>3. CASE ~(k <= Checked(n))
    <3>1. (n + 1) % Windows = 0 /\ k \in (n + 1 - Windows + 1)..(n + 1)
      BY <1>5, <2>1, <2>3 DEF Checked, Windows
    <3>2. Len(Got') % Windows = 0 /\ k \in (Len(Got') - Windows + 1)..Len(Got')
      BY <1>5, <3>1 DEF Windows
    <3>3. Fetched(Append(Got, r)) /\ Got' = Append(Got, r)
      BY <1>1, <1>3
    <3>4. QED
      BY <1>7, <3>2, <3>3, Zenon DEF Fetched
  <2>4. QED
    BY <2>2, <2>3
<1>8. QED
  BY <1>3, <1>4, <1>5, <1>6, <1>7, Zenon DEF Staged, Got

(* What install renames into place is the whole package the offer names.   *)
LEMMA InstallWhole == ASSUME AllWhole, Install PROVE AllWhole'
<1>1. /\ pc = "fetch" /\ Len(Got) = Steps /\ Got \in Seq(Serials)
      /\ SHA => \A k \in 1..Checked(Len(Got)) : Got[k] = want
  BY DEF Install, AllWhole, Staged, Got
<1>2. SHA => Got = Whole(want)
  BY <1>1, StepsWhole DEF Whole
<1>3. pkgs' = [pkgs EXCEPT ![want] = Got] /\ pc' = "flip"
  BY DEF Install, Got, Goto
<1>4. pkgs' = [s \in Serials |-> pkgs'[s]]
  BY <1>3 DEF AllWhole
<1>5. SHA => \A s \in Serials : pkgs'[s] # None => pkgs'[s] = Whole(s)
  BY <1>2, <1>3 DEF AllWhole, PackageWhole
<1>6. QED
  BY <1>3, <1>4, <1>5 DEF AllWhole, PackageWhole, Staged, Whole, Steps

(* A transfer starts with an empty staging directory.                      *)
LEMMA ChooseStaged == ASSUME Choose PROVE Staged'
<1> SUFFICES ASSUME pc' = "fetch" PROVE Staged'
  BY DEF Staged
<1>1. stage' = [serial |-> want, got |-> <<>>]
  BY DEF Choose
<1>2. Got' = <<>> /\ stage' = [serial |-> stage'.serial, got |-> Got']
  BY <1>1 DEF Got
<1>3. Got' \in Seq(Serials) /\ Len(Got') = 0 /\ 1..Checked(0) = {}
  BY <1>2 DEF Checked, Windows
<1>4. QED
  BY <1>2, <1>3, StepsWhole DEF Staged, Got

(* The devices the loader meets have whole packages.                       *)
LEMMA WholeInit == Init => AllWhole
<1> SUFFICES ASSUME Init PROVE AllWhole
  OBVIOUS
<1>1. OnDisk({1}) \/ OnDisk({}) \/ OnDisk({1, 3})
  BY DEF Init
<1>2. ASSUME NEW S, OnDisk(S)
      PROVE  PackageWhole /\ pkgs = [s \in Serials |-> pkgs[s]]
  BY <1>2 DEF OnDisk, PackageWhole
<1>3. Staged
  BY DEF Init, Staged
<1>4. QED
  BY <1>1, <1>2, <1>3 DEF AllWhole

(* Every step keeps it: only install makes a package.                      *)
LEMMA WholeNext == AllWhole /\ [Next]_vars => AllWhole'
<1> SUFFICES ASSUME AllWhole, [Next]_vars PROVE AllWhole'
  OBVIOUS
<1>1. ASSUME pkgs' = pkgs, Staged' PROVE AllWhole'
  BY <1>1 DEF AllWhole, PackageWhole, Whole, Steps
<1>2. ASSUME pkgs' = pkgs, pc' # "fetch" PROVE AllWhole'
  BY <1>1, <1>2 DEF Staged
<1>3. ASSUME UNCHANGED <<pkgs, stage, pc, st, pieces>> PROVE AllWhole'
  BY <1>1, <1>3 DEF AllWhole, Staged, Got, want, offer
<1>4. CASE Edit
  BY <1>3, <1>4 DEF Edit, disk, proc
<1>5. CASE UNCHANGED vars
  BY <1>3, <1>5 DEF vars, disk, proc
<1>6. CASE Begin \/ Crash
  BY <1>2, <1>6 DEF Begin, Crash, disk, Goto
<1>7. CASE StartReadOnly \/ Start \/ PullSize \/ PullWindow
  BY <1>2, <1>7 DEF StartReadOnly, Start, PullSize, PullWindow, disk, Goto
<1>8. CASE JudgeMalformed \/ Judge
  BY <1>2, <1>8 DEF JudgeMalformed, Judge, disk, Goto
<1>9. CASE Choose
  BY <1>1, <1>9, ChooseStaged DEF Choose
<1>10. CASE Fetch
  BY <1>1, <1>10, FetchStaged, Zenon DEF Fetch, AllWhole
<1>11. CASE Install
  BY <1>11, InstallWhole
<1>12. CASE FetchFails \/ Move \/ Limit
  BY <1>2, <1>12 DEF FetchFails, Move, Limit, Goto
<1>13. CASE ApplyHooks \/ Jobs \/ Save \/ Tell
  BY <1>2, <1>13 DEF ApplyHooks, Jobs, Save, Tell, disk, Goto
<1>14. ASSUME NEW t \in Targets, Backup(t) \/ SwapHook(t) \/ SkipHook(t) PROVE AllWhole'
  BY <1>2, <1>14 DEF Backup, SwapHook, SkipHook, disk
<1>15. QED
  BY <1>4, <1>5, <1>6, <1>7, <1>8, <1>9, <1>10, <1>11, <1>12, <1>13, <1>14 DEF Next, Loader

(* A package on disk is what its record names, whatever the app writes     *)
(* into the directory during the transfer, however many payloads there are *)
(* and wherever the power fails (fetch, install).                          *)
THEOREM PackagesWhole == Spec => []PackageWhole
<1>1. Init => AllWhole
  BY WholeInit
<1>2. AllWhole /\ [Next]_vars => AllWhole'
  BY WholeNext
<1>3. AllWhole => PackageWhole
  BY DEF AllWhole
<1>4. QED
  BY <1>1, <1>2, <1>3, PTL DEF Spec
-----------------------------------------------------------------------------
(* While the windows of an offer are pulled, those already there are from  *)
(* the snapshot the host serves; before the first there are none.          *)
OneOffer ==
    /\ pieces \in Seq(Offers)
    /\ pc \in {"start", "pull"} => pieces = <<>>
    /\ pc = "window" => \A i \in DOMAIN pieces : pieces[i] = snap /\ snap # None
    /\ OfferWhole

(* A window is cut from the snapshot the ones before it are from: the host *)
(* reads the offer again only when it has none (guest_pkg_op).             *)
LEMMA WindowOneOffer == ASSUME OneOffer, PullWindow PROVE OneOffer'
<1>1. PICK r \in Offers \cup {None} :
        /\ OfferWindow(r) /\ pieces' = (IF r = None THEN <<>> ELSE Append(pieces, r))
  BY DEF PullWindow, Host
<1>2. /\ pieces \in Seq(Offers) /\ \A i \in DOMAIN pieces : pieces[i] = snap /\ snap # None
      /\ Len(pieces) \in Nat /\ DOMAIN pieces = 1..Len(pieces)
  BY SeqIs DEF OneOffer, PullWindow
<1>3. snap' = r /\ (snap # None => snap' = snap)
  BY <1>1 DEF OfferWindow
<1>4. pc' \notin {"start", "pull"}
  BY DEF PullWindow, Goto
<1>5. CASE r = None
  BY <1>1, <1>4, <1>5 DEF OneOffer, OfferWhole
<1>6. CASE r # None
  <2>1. /\ pieces' = Append(pieces, r) /\ pieces' \in Seq(Offers) /\ Len(pieces') = Len(pieces) + 1
        /\ DOMAIN pieces' = 1..(Len(pieces) + 1)
    BY <1>1, <1>2, <1>6, AppendIs
  <2>2. ASSUME NEW i \in DOMAIN pieces' PROVE pieces'[i] = r
    <3>1. CASE i = Len(pieces) + 1
      BY <1>2, <2>1, <3>1, AppendIs
    <3>2. CASE i # Len(pieces) + 1
      <4>1. i \in DOMAIN pieces
        BY <1>2, <2>1, <2>2, <3>2
      <4>2. pieces'[i] = pieces[i]
        BY <1>2, <2>1, <4>1, AppendIs
      <4>3. QED
        BY <1>2, <1>3, <4>1, <4>2
    <3>3. QED
      BY <3>1, <3>2
  <2>3. QED
    BY <1>3, <1>4, <1>6, <2>1, <2>2 DEF OneOffer, OfferWhole
<1>7. QED
  BY <1>5, <1>6

(* Every step keeps it: the app writes to the directory, never to the      *)
(* snapshot, and nothing else adds a window.                               *)
LEMMA OneOfferNext == OneOffer /\ [Next]_vars => OneOffer'
<1> SUFFICES ASSUME OneOffer, [Next]_vars PROVE OneOffer'
  OBVIOUS
<1>1. ASSUME UNCHANGED <<pieces, pc, snap>> PROVE OneOffer'
  BY <1>1 DEF OneOffer, OfferWhole
<1>2. ASSUME pieces' = <<>> PROVE OneOffer'
  BY <1>2 DEF OneOffer, OfferWhole
<1>3. ASSUME pieces' = pieces, pc' \notin {"start", "pull", "window"} PROVE OneOffer'
  BY <1>3 DEF OneOffer, OfferWhole
<1>4. CASE Edit
  BY <1>1, <1>4 DEF Edit, host, proc
<1>5. CASE UNCHANGED vars
  BY <1>1, <1>5 DEF vars, host, proc
<1>6. CASE Begin \/ Crash
  BY <1>2, <1>6 DEF Begin, Crash
<1>7. CASE StartReadOnly \/ Start \/ PullSize
  BY <1>2, <1>7 DEF StartReadOnly, Start, PullSize, proc, OneOffer
<1>8. CASE PullWindow
  BY <1>8, WindowOneOffer
<1>9. CASE JudgeMalformed \/ Judge
  BY <1>3, <1>9 DEF JudgeMalformed, Judge, Goto
<1>10. CASE Choose
  <2>1. pieces' = pieces /\ pc' \in {"limit", "flip", "fetch"}
    BY <1>10 DEF Choose, Goto
  <2>2. QED
    BY <1>3, <2>1
<1>11. CASE Fetch
  BY <1>3, <1>11 DEF Fetch, proc
<1>12. CASE FetchFails \/ Install \/ Move \/ Limit
  BY <1>3, <1>12 DEF FetchFails, Install, Move, Limit, proc, Goto
<1>13. CASE ApplyHooks \/ Jobs \/ Save \/ Tell
  BY <1>3, <1>13 DEF ApplyHooks, Jobs, Save, Tell, proc, Goto
<1>14. ASSUME NEW t \in Targets, Backup(t) \/ SwapHook(t) \/ SkipHook(t) PROVE OneOffer'
  BY <1>3, <1>14 DEF Backup, SwapHook, SkipHook, proc
<1>15. QED
  BY <1>4, <1>5, <1>6, <1>7, <1>8, <1>9, <1>10, <1>11, <1>12, <1>13, <1>14 DEF Next, Loader

(* At the start nothing has been pulled.                                   *)
LEMMA OneOfferInit == Init => OneOffer
  BY DEF Init, OneOffer, OfferWhole

(* The offer the loader parses is one offer, whatever the app writes       *)
(* between two windows and whatever an earlier run or boot pulled          *)
(* (QC_PKG_OFFER of guest_pkg_op, pull_offer).                             *)
THEOREM OffersWhole == Spec => []OfferWhole
<1>1. Init => OneOffer
  BY OneOfferInit
<1>2. OneOffer /\ [Next]_vars => OneOffer'
  BY OneOfferNext
<1>3. OneOffer => OfferWhole
  BY DEF OneOffer
<1>4. QED
  BY <1>1, <1>2, <1>3, PTL DEF Spec
-----------------------------------------------------------------------------
(* The list of bad serials *)

(* The elements after the first.                                           *)
LEMMA TailIs ==
    ASSUME NEW S, NEW s \in Seq(S), s # << >>
    PROVE  /\ Head(s) \in S /\ Tail(s) \in Seq(S) /\ Len(Tail(s)) = Len(s) - 1 /\ Len(s) > 0
           /\ \A i \in 1..(Len(s) - 1) : Tail(s)[i] = s[i + 1]
OBVIOUS

(* A set of numbers has a least one.                                       *)
LEMMA LeastIs ==
    ASSUME NEW S, S \subseteq Nat, S # {}
    PROVE  \E x \in S : \A y \in S : x <= y
<1> DEFINE R == OpToRel(<, Nat)
<1>1. IsWellFoundedOn(R, Nat)
  BY NatLessThanWellFounded, Zenon
<1>2. \A x, y \in Nat : y < x => <<y, x>> \in R
  BY DEF OpToRel
<1> HIDE DEF R
<1>3. PICK x \in S : \A y \in S : ~ (<<y, x>> \in R)
  BY <1>1, WFMin, Zenon
<1>4. ASSUME NEW y \in S PROVE x <= y
  <2>1. x \in Nat /\ y \in Nat /\ ~(y < x)
    BY <1>2, <1>3, Zenon
  <2>2. QED
    BY <2>1
<1>5. QED
  BY <1>4

(* A list the loader may hold.                                             *)
List(b) == b \in Seq(Serials) /\ Len(b) <= MAX_SERIALS

(* The serials of a list are its elements.                                 *)
LEMMA RangeIs ==
    ASSUME NEW S, NEW b \in Seq(S)
    PROVE  Range(b) \subseteq S /\ \A x : x \in Range(b) <=> \E i \in 1..Len(b) : b[i] = x
BY SeqIs DEF Range

(* add_bad keeps the list within its length and adds one serial to it.     *)
LEMMA AddBadIs ==
    ASSUME NEW b, List(b), NEW s \in Serials
    PROVE  List(add_bad(b, s)) /\ Range(add_bad(b, s)) \subseteq Range(b) \cup {s}
<1> DEFINE kept == IF Len(b) = MAX_SERIALS THEN Tail(b) ELSE b
<1>1. b \in Seq(Serials) /\ Len(b) \in Nat /\ Len(b) <= MAX_SERIALS /\ MAX_SERIALS \in Nat \ {0}
  BY SeqIs, ItBootAssumption DEF List
<1>2. CASE s \in Range(b)
  BY <1>2 DEF add_bad
<1>3. CASE s \notin Range(b)
  <2>1. kept \in Seq(Serials) /\ Len(kept) \in Nat /\ Len(kept) < MAX_SERIALS
        /\ \A i \in 1..Len(kept) : kept[i] \in Range(b)
    <3>1. CASE Len(b) = MAX_SERIALS
      <4>1. b # << >> /\ kept = Tail(b)
        BY <1>1, <3>1
      <4>2. kept \in Seq(Serials) /\ Len(kept) = Len(b) - 1
            /\ \A i \in 1..(Len(b) - 1) : kept[i] = b[i + 1]
        BY <1>1, <4>1, TailIs
      <4>3. QED
        BY <1>1, <3>1, <4>2, RangeIs
    <3>2. CASE Len(b) # MAX_SERIALS
      BY <1>1, <3>2, RangeIs
    <3>3. QED
      BY <3>1, <3>2
  <2>2. add_bad(b, s) = Append(kept, s)
    BY <1>3 DEF add_bad
  <2> HIDE DEF kept
  <2>3. /\ Append(kept, s) \in Seq(Serials) /\ Len(Append(kept, s)) = Len(kept) + 1
        /\ Append(kept, s)[Len(kept) + 1] = s /\ \A i \in 1..Len(kept) : Append(kept, s)[i] = kept[i]
    BY <2>1, AppendIs
  <2>4. ASSUME NEW x \in Range(Append(kept, s)) PROVE x \in Range(b) \cup {s}
    <3>1. Append(kept, s) \in Seq(Serials) /\ x \in Range(Append(kept, s))
      BY <2>3, <2>4
    <3>2. PICK i \in 1..Len(Append(kept, s)) : Append(kept, s)[i] = x
      BY <3>1, RangeIs, Zenon
    <3>3. CASE i = Len(kept) + 1
      BY <2>3, <3>2, <3>3
    <3>4. CASE i # Len(kept) + 1
      BY <2>1, <2>3, <3>2, <3>4
    <3>5. QED
      BY <3>3, <3>4
  <2>5. QED
    BY <1>1, <2>1, <2>2, <2>3, <2>4 DEF List
<1>4. QED
  BY <1>2, <1>3

(* The verdicts of an offer, entered one by one: the list stays within its *)
(* length, and a serial to be skipped is on it only if it was before.  The *)
(* recursive function exists, and its values have the property, because    *)
(* there is no least number of serials for which they do not.              *)
LEMMA EnteredIs ==
    ASSUME NEW b, List(b), NEW list \in Seq(Serials), NEW Skip
    PROVE  /\ List(Entered(b, list, Skip))
           /\ \A x \in Skip : x \in Range(Entered(b, list, Skip)) => x \in Range(b)
<1> DEFINE N == Len(list)
           Step(v, n) == IF list[n] \in Skip THEN v ELSE add_bad(v, list[n])
           F(f, m) == [n \in 0..m |-> IF n = 0 THEN b ELSE Step(f[n - 1], n)]
           g == CHOOSE f : f = F(f, N)
           Good(v) == List(v) /\ \A x \in Skip : x \in Range(v) => x \in Range(b)
<1>1. Entered(b, list, Skip) = g[N]
  BY DEF Entered
<1>2. N \in Nat /\ \A n \in 1..N : list[n] \in Serials
  BY SeqIs
<1>3. \A v : \A n \in 1..N : Good(v) => Good(Step(v, n))
  <2> SUFFICES ASSUME NEW v, NEW n \in 1..N, Good(v) PROVE Good(Step(v, n))
    OBVIOUS
  <2>1. list[n] \in Serials /\ List(v)
    BY <1>2
  <2>2. List(add_bad(v, list[n])) /\ Range(add_bad(v, list[n])) \subseteq Range(v) \cup {list[n]}
    BY <2>1, AddBadIs
  <2>3. QED
    BY <2>2
<1> HIDE DEF Step, N, Good
<1>4. \A m \in 0..N : \E f : f = F(f, m)
  <2> DEFINE Bad == {m \in 0..N : ~\E f : f = F(f, m)}
  <2> SUFFICES ASSUME Bad # {} PROVE FALSE
    OBVIOUS
  <2>1. PICK m \in Bad : \A y \in Bad : m <= y
    <3>1. Bad \subseteq Nat
      OBVIOUS
    <3> HIDE DEF Bad
    <3>2. QED
      BY <3>1, LeastIs, Zenon
  <2>2. m \in 0..N /\ ~\E f : f = F(f, m)
    OBVIOUS
  <2>3. CASE m = 0
    <3>1. [n \in 0..0 |-> b] = F([n \in 0..0 |-> b], 0)
      OBVIOUS
    <3>2. QED
      BY <2>2, <2>3, <3>1, Zenon
  <2>4. CASE m # 0
    <3>1. m - 1 \in 0..N /\ m - 1 \notin Bad
      <4> HIDE DEF Bad
      <4>1. QED
        BY <1>2, <2>1, <2>2, <2>4
    <3>2. PICK f : f = F(f, m - 1)
      BY <3>1
    <3> DEFINE h == [n \in 0..m |-> IF n = m THEN Step(f[m - 1], m) ELSE f[n]]
    <3>3. m \in Nat /\ m > 0
      BY <1>2, <2>2, <2>4
    <3>4. h[m] = Step(h[m - 1], m)
      BY <3>3
    <3>5. ASSUME NEW n \in 0..m, n # m PROVE h[n] = IF n = 0 THEN b ELSE Step(h[n - 1], n)
      <4>1. n \in 0..(m - 1) /\ h[n] = f[n]
        BY <3>3, <3>5
      <4>2. f[n] = IF n = 0 THEN b ELSE Step(f[n - 1], n)
        BY <3>2, <4>1
      <4>3. n # 0 => h[n - 1] = f[n - 1]
        BY <3>3, <3>5
      <4>4. QED
        BY <4>1, <4>2, <4>3
    <3>6. h = [n \in 0..m |-> h[n]]
      OBVIOUS
    <3> HIDE DEF h
    <3>7. \A n \in 0..m : h[n] = IF n = 0 THEN b ELSE Step(h[n - 1], n)
      BY <3>3, <3>4, <3>5
    <3>8. h = F(h, m)
      BY <3>6, <3>7, Zenon
    <3>9. QED
      BY <2>2, <3>8, Zenon
  <2>5. QED
    BY <2>3, <2>4
<1>5. g = F(g, N)
  <2>1. N \in 0..N
    BY <1>2
  <2>2. \E f : f = F(f, N)
    BY <1>4, <2>1, Zenon
  <2> HIDE DEF F
  <2>3. QED
    BY <2>2
<1> HIDE DEF g
<1>6. g[0] = b /\ \A n \in 1..N : g[n] = Step(g[n - 1], n)
  BY <1>2, <1>5
<1>7. \A n \in 0..N : Good(g[n])
  <2> DEFINE Bad == {n \in 0..N : ~Good(g[n])}
  <2> SUFFICES ASSUME Bad # {} PROVE FALSE
    OBVIOUS
  <2>1. PICK m \in Bad : \A y \in Bad : m <= y
    <3>1. Bad \subseteq Nat
      OBVIOUS
    <3> HIDE DEF Bad
    <3>2. QED
      BY <3>1, LeastIs
  <2>2. Good(b)
    BY DEF Good
  <2>3. m \in 1..N /\ m - 1 \in 0..N /\ m - 1 \notin Bad
    BY <1>2, <1>6, <2>1, <2>2
  <2>4. Good(g[m - 1]) /\ ~Good(g[m])
    BY <2>3
  <2>5. Good(Step(g[m - 1], m))
    BY <1>3, <2>3, <2>4, Zenon
  <2>6. QED
    BY <1>6, <2>3, <2>4, <2>5, Zenon
<1>8. QED
  BY <1>1, <1>2, <1>7 DEF Good
-----------------------------------------------------------------------------
(* The seed *)

(* What a run of the loader knows where it is: the parts of an offer that  *)
(* are there, the package it means to move to, the targets left to hook.   *)
Fetching == {"judge", "choose", "fetch", "flip", "limit"}
Hooking == {"hooks", "hook", "save", "report", "done"}
PcInv ==
    /\ pc \in {"off", "start", "pull", "window"} \cup Fetching \cup Hooking
    /\ pc = "window" => Len(pieces) < Windows
    /\ pc \in Fetching => pieces # <<>>
    /\ pc = "fetch" => want \in Serials /\ stage.serial = want
    /\ pc = "flip" => pkg_ok(want)
    /\ pc # "hook" \/ readonly \/ cur = NoSerial => todo = {}

(* The floor of a state: its seed is on disk, and not called bad.          *)
Floor(z) == z.seed # NoSerial => pkg_ok(z.seed) /\ z.seed \notin Range(z.bad)
FloorInv == TypeOK /\ PcInv /\ Floor(st) /\ (state # None => Floor(state))

(* The parts of TypeOK that the loader's own steps leave alone, and those  *)
(* they change.                                                            *)
DiskType ==
    /\ pkgs \in [Serials -> [1..Steps -> Serials] \cup {None}]
    /\ stage = None \/ (stage.serial \in Serials /\ stage.got \in Seq(Serials) /\ Len(stage.got) <= Steps)
    /\ current \in Serials \cup {NoSerial}
    /\ state \in State \cup {None} /\ (state # None => List(state.bad))
    /\ sys \in [Targets -> Serials \cup {Stock, Gone}]
    /\ baked \in [Targets -> Serials \cup {Stock, Gone, None}]
HostType == HostTypeOK /\ (last # None => last.result \in Results)
StType == st \in State /\ List(st.bad)
ProcType ==
    /\ cur \in Serials \cup {NoSerial} /\ start \in Serials \cup {NoSerial}
    /\ loaded \subseteq Serials /\ todo \subseteq Targets
    /\ pieces \in Seq(Offers) /\ Len(pieces) <= Windows /\ result \in Results

(* TypeOK is those parts.                                                  *)
LEMMA TypeParts == TypeOK <=> HostType /\ DiskType /\ StType /\ ProcType
<1>1. ASSUME NEW z \in State PROVE z.bad \in Seq(Serials)
  BY <1>1 DEF State
<1>2. QED
  BY <1>1 DEF TypeOK, HostType, DiskType, StType, ProcType, List

(* A state with one field set is one.                                      *)
LEMMA StateWith ==
    ASSUME NEW z \in State, NEW s \in Serials \cup {NoSerial}, NEW t \in 0..MAX_TRIES,
           NEW b \in Seq(Serials), NEW h \in SUBSET Targets
    PROVE  /\ [z EXCEPT !.seed = s] \in State /\ [z EXCEPT !.seed = s].seed = s
           /\ [z EXCEPT !.seed = s].bad = z.bad
           /\ [z EXCEPT !.good = s] \in State /\ [z EXCEPT !.good = s].seed = z.seed
           /\ [z EXCEPT !.good = s].bad = z.bad
           /\ [z EXCEPT !.previous = s] \in State /\ [z EXCEPT !.previous = s].seed = z.seed
           /\ [z EXCEPT !.previous = s].bad = z.bad
           /\ [z EXCEPT !.tries = t] \in State /\ [z EXCEPT !.tries = t].seed = z.seed
           /\ [z EXCEPT !.tries = t].bad = z.bad
           /\ [z EXCEPT !.bad = b] \in State /\ [z EXCEPT !.bad = b].seed = z.seed
           /\ [z EXCEPT !.bad = b].bad = b
           /\ [z EXCEPT !.hooks = h] \in State /\ [z EXCEPT !.hooks = h].seed = z.seed
           /\ [z EXCEPT !.hooks = h].bad = z.bad
BY DEF State

(* The empty state is one, and has no seed.                                *)
LEMMA BlankIs == Blank \in State /\ Blank.bad = << >> /\ Blank.seed = NoSerial
<1>1. MAX_TRIES \in Nat
  BY ItBootAssumption
<1>2. << >> \in Seq(Serials)
  OBVIOUS
<1>3. QED
  BY <1>1, <1>2 DEF Blank, State

(* ... and so is one with nothing called bad.                              *)
LEMMA NoneBad ==
    ASSUME NEW b, b = << >>
    PROVE  List(b) /\ Range(b) = {}
BY ItBootAssumption DEF List, Range

(* A package on disk stays there: only install changes one, and what it    *)
(* renames into place is there.                                            *)
LEMMA OkStays ==
    ASSUME TypeOK, pkgs' = pkgs \/ (Install /\ Staged), NEW s, pkg_ok(s)
    PROVE  pkg_ok(s)'
<1>1. CASE pkgs' = pkgs
  BY <1>1 DEF pkg_ok
<1>2. CASE Install /\ Staged
  <2>1. Got \in Seq(Serials) /\ Len(Got) = Steps /\ pkgs' = [pkgs EXCEPT ![want] = Got]
    BY <1>2 DEF Install, Staged, Got
  <2>2. Got \in [1..Steps -> Serials]
    BY <2>1, SeqIs
  <2>3. Got # None
    BY <2>2, NoneAssumption
  <2>4. pkgs \in [Serials -> [1..Steps -> Serials] \cup {None}]
    BY DEF TypeOK
  <2>5. QED
    BY <2>1, <2>3, <2>4 DEF pkg_ok
<1>3. QED
  BY <1>1, <1>2

(* What a package holds is something.                                      *)
LEMMA WholeIs ==
    ASSUME NEW s \in Serials
    PROVE  Whole(s) \in [1..Steps -> Serials] /\ Whole(s) # None
<1>1. Whole(s) \in [1..Steps -> Serials]
  BY DEF Whole
<1>2. QED
  BY <1>1, NoneAssumption

(* The devices the loader meets have a floor.                              *)
LEMMA FloorInit == Init => FloorInv
<1> SUFFICES ASSUME Init PROVE FloorInv
  OBVIOUS
<1>1. {1, 2, 3} \subseteq Serials /\ HooksOf[3] \in SUBSET Targets
  BY ItBootAssumption
<1>2. HostType
  BY <1>1 DEF Init, HostInit, HostType, HostTypeOK, Dir
<1>3. ProcType /\ PcInv
  <2>1. /\ pc = "off" /\ result = "unchanged" /\ todo = {} /\ loaded = {} /\ pieces = << >>
        /\ cur = NoSerial /\ start = NoSerial
    BY DEF Init
  <2>2. ProcType
    BY <2>1 DEF ProcType, Windows, Results
  <2>3. PcInv
    BY <2>1 DEF PcInv, Fetching, Hooking
  <2>4. QED
    BY <2>2, <2>3
<1>4. StType /\ Floor(st)
  <2>1. st = Blank
    BY DEF Init
  <2>2. QED
    BY <2>1, BlankIs, NoneBad DEF StType, Floor
<1>5. /\ Prepared \in State /\ Prepared.seed = 1 /\ Prepared.bad = << >>
      /\ Updated \in State /\ Updated.seed = 1 /\ Updated.bad = << >>
  <2>1. Prepared \in State /\ Prepared.seed = 1 /\ Prepared.bad = << >>
    BY <1>1, BlankIs DEF Prepared, State
  <2>2. QED
    BY <1>1, <2>1, Zenon DEF Updated, State
<1>6. /\ pkgs \in [Serials -> [1..Steps -> Serials] \cup {None}]
      /\ state # None => state \in {Prepared, Updated} /\ pkg_ok(1)
  <2>1. ASSUME NEW S, OnDisk(S)
        PROVE  /\ pkgs \in [Serials -> [1..Steps -> Serials] \cup {None}]
               /\ 1 \in S => pkg_ok(1)
    BY <1>1, <2>1, WholeIs DEF OnDisk, pkg_ok
  <2>2. /\ OnDisk({1}) \/ OnDisk({}) \/ OnDisk({1, 3})
        /\ state # None => state \in {Prepared, Updated} /\ (OnDisk({1}) \/ OnDisk({1, 3}))
    BY DEF Init
  <2>3. QED
    BY <2>1, <2>2
<1>7. state # None => Floor(state) /\ List(state.bad) /\ state \in State
  BY <1>5, <1>6, NoneBad DEF Floor
<1>8. /\ sys \in [Targets -> Serials \cup {Stock, Gone}]
      /\ baked \in [Targets -> Serials \cup {Stock, Gone, None}]
  <2> DEFINE Hooked(t) == state = Updated /\ t \in HooksOf[3]
  <2>1. /\ sys = [t \in Targets |-> IF Hooked(t) THEN 3 ELSE Original(t)]
        /\ baked = [t \in Targets |-> IF Hooked(t) THEN Original(t) ELSE None]
    BY DEF Init
  <2> HIDE DEF Hooked
  <2>2. \A t : Original(t) \in {Stock, Gone}
    BY DEF Original
  <2>3. QED
    BY <1>1, <2>1, <2>2
<1>9. DiskType
  <2>1. stage = None /\ current \in {1, 2, 3, NoSerial}
    BY DEF Init
  <2>2. QED
    BY <1>1, <1>6, <1>7, <1>8, <2>1 DEF DiskType
<1>10. QED
  BY <1>2, <1>3, <1>4, <1>7, <1>9, TypeParts DEF FloorInv

(* The floor of the state in memory and of the saved one.                  *)
Floors == Floor(st) /\ (state # None => Floor(state))

(* The invariant by its parts: a step keeps those whose variables it leaves. *)
LEMMA FloorParts == FloorInv <=> HostType /\ DiskType /\ StType /\ ProcType /\ PcInv /\ Floors
BY TypeParts DEF FloorInv, Floors

(* ... and the parts make it up again after the step.                      *)
LEMMA FloorAgain ==
    ASSUME HostType', DiskType', StType', ProcType', PcInv', Floors'
    PROVE  FloorInv'
BY DEF FloorInv, Floors, TypeOK, HostType, DiskType, StType, ProcType, List

(* ... the host's side, the disk, the loader's state and its variables.    *)
LEMMA PartsStay ==
    ASSUME FloorInv
    PROVE  /\ UNCHANGED <<dir, host>> => HostType'
           /\ UNCHANGED disk => DiskType'
           /\ UNCHANGED st => StType'
           /\ UNCHANGED <<cur, start, loaded, todo, pieces, result>> => ProcType'
           /\ UNCHANGED <<pkgs, st, state>> => Floors'
<1>1. HostType /\ DiskType /\ StType /\ ProcType /\ Floors
  BY FloorParts
<1>2. UNCHANGED <<dir, host>> => HostType'
  BY <1>1 DEF host, HostType, HostTypeOK
<1>3. UNCHANGED disk => DiskType'
  BY <1>1 DEF disk, DiskType
<1>4. UNCHANGED st => StType'
  BY <1>1 DEF StType
<1>5. UNCHANGED <<cur, start, loaded, todo, pieces, result>> => ProcType'
  BY <1>1 DEF ProcType
<1>6. UNCHANGED <<pkgs, st, state>> => Floors'
  BY <1>1 DEF Floors, Floor, pkg_ok
<1>7. QED
  BY <1>2, <1>3, <1>4, <1>5, <1>6

(* The app writes offers and payloads, and the loader is elsewhere.        *)
LEMMA EditFloor == ASSUME FloorInv, Edit PROVE FloorInv'
<1>1. dir' \in Dir
  <2>1. dir \in Dir
    BY FloorParts DEF HostType, HostTypeOK
  <2>2. CASE \E o \in Offers \cup {None} : WriteOffer(o)
    BY <2>1, <2>2 DEF WriteOffer, Dir
  <2>3. CASE \E i \in Entries, v \in Serials \cup {None} : WritePayload(i, v)
    BY <2>1, <2>3 DEF WritePayload, Dir
  <2>4. QED
    BY <2>2, <2>3 DEF Edit
<1>2. UNCHANGED <<host, disk, readonly, pc, proc, loaded>>
  BY DEF Edit
<1>3. HostType'
  BY <1>1, <1>2, FloorParts DEF HostType, HostTypeOK, host
<1>4. PcInv'
  BY <1>2, FloorParts DEF PcInv, proc, disk, pkg_ok, want, offer
<1>5. QED
  BY <1>2, <1>3, <1>4, PartsStay, FloorAgain DEF proc, disk

(* A run begins, and the power fails: nothing is left of the run before.   *)
LEMMA BeginFloor == ASSUME FloorInv, Begin \/ Crash PROVE FloorInv'
<1>1. HostType'
  BY FloorParts DEF Begin, Crash, Host, PkgReset, host, HostType, HostTypeOK
<1>2. StType' /\ Floors'
  <2>1. CASE Begin
    BY <2>1, PartsStay DEF Begin, disk
  <2>2. CASE Crash
    <3>1. st' = Blank /\ UNCHANGED <<pkgs, state>>
      BY <2>2 DEF Crash, disk
    <3>2. QED
      BY <3>1, BlankIs, NoneBad, FloorParts DEF StType, Floors, Floor, pkg_ok
  <2>3. QED
    BY <2>1, <2>2
<1>3. ProcType' /\ PcInv'
  <2>1. /\ pc' \in {"off", "start"} /\ result' = "unchanged" /\ (todo' = {} \/ todo' = todo)
        /\ (loaded' = {} \/ loaded' = loaded) /\ pieces' = << >>
        /\ (cur' = NoSerial \/ cur' = cur) /\ (start' = NoSerial \/ start' = start)
    BY DEF Begin, Crash, Goto
  <2>2. ProcType'
    BY <2>1, FloorParts DEF ProcType, Windows, Results
  <2>3. todo' = {}
    BY FloorParts DEF Begin, Crash, PcInv
  <2>4. PcInv'
    BY <2>1, <2>3 DEF PcInv, Fetching, Hooking
  <2>5. QED
    BY <2>2, <2>4
<1>4. DiskType'
  BY PartsStay DEF Begin, Crash
<1>5. QED
  BY <1>1, <1>2, <1>3, <1>4, FloorAgain

(* Start brings the state and a usable package; a device without a state   *)
(* takes the package it runs as its seed.                                  *)
LEMMA StartFloor == ASSUME FloorInv, Start \/ StartReadOnly PROVE FloorInv'
<1>1. HostType'
  BY PartsStay DEF Start, StartReadOnly, Quiet
<1>2. pc' = "pull" /\ UNCHANGED <<pkgs, state, sys, baked, pieces, todo, loaded, readonly>> /\ result' \in Results
  <2>1. "read_only" \in Results /\ result \in Results
    BY FloorParts DEF ProcType, Results
  <2>2. CASE Start
    BY <2>1, <2>2 DEF Start, Goto, Quiet
  <2>3. CASE StartReadOnly
    BY <2>1, <2>3 DEF StartReadOnly, Goto, Quiet, disk
  <2>4. QED
    BY <2>2, <2>3
<1>3. cur' \in Serials \cup {NoSerial} /\ start' = cur' /\ (cur' # NoSerial => pkg_ok(cur'))
  BY FloorParts DEF Start, StartReadOnly, flip, pkg_ok
<1>4. (stage' = None \/ stage' = stage) /\ current' \in Serials \cup {NoSerial}
  BY FloorParts DEF Start, StartReadOnly, flip, pkg_ok, NoFlip, disk, DiskType
<1>5. todo = {}
  BY FloorParts DEF PcInv, Start, StartReadOnly
<1>6. ProcType' /\ PcInv'
  BY <1>2, <1>3, <1>5, FloorParts DEF ProcType, PcInv, Fetching, Hooking
<1>7. DiskType'
  BY <1>2, <1>4, FloorParts DEF DiskType
<1>8. StType' /\ Floors'
  <2>1. CASE StartReadOnly
    BY <2>1, PartsStay DEF StartReadOnly, disk
  <2>2. CASE Start /\ state = None
    <3>1. st' = [Blank EXCEPT !.seed = cur']
      BY <2>2 DEF Start
    <3>2. st' \in State /\ st'.seed = cur' /\ st'.bad = << >>
      BY <1>3, <3>1, BlankIs, SMTT(20) DEF State
    <3>3. QED
      BY <1>2, <1>3, <2>2, <3>2, NoneBad DEF StType, Floors, Floor, pkg_ok
  <2>3. CASE Start /\ state # None
    <3>1. st' = state
      BY <2>3 DEF Start
    <3>2. QED
      BY <1>2, <2>3, <3>1, FloorParts DEF StType, Floors, Floor, DiskType, pkg_ok
  <2>4. QED
    BY <2>1, <2>2, <2>3
<1>9. QED
  BY <1>1, <1>6, <1>7, <1>8, FloorAgain

(* The windows of an offer come one by one, and there are Windows of them. *)
LEMMA PullFloor == ASSUME FloorInv, OneOffer, PullSize \/ PullWindow PROVE FloorInv'
<1>1. UNCHANGED <<disk, readonly, st, cur, start, verdict, result, todo, loaded>> /\ UNCHANGED <<dir, last>>
  BY DEF PullSize, PullWindow, proc, Host, OfferSize, OfferWindow
<1>2. dir.offer \in Offers \cup {None} /\ snap' \in {snap, dir.offer} /\ file' \in {file, None}
  <2>1. dir.offer \in Offers \cup {None}
    BY FloorParts DEF HostType, HostTypeOK, Dir
  <2>2. QED
    BY <2>1 DEF PullSize, PullWindow, Host, OfferSize, OfferWindow, Snapshot
<1>3. HostType'
  BY <1>1, <1>2, FloorParts DEF HostType, HostTypeOK
<1>4. todo' = {}
  BY <1>1, FloorParts DEF PullSize, PullWindow, PcInv
<1>5. CASE PullSize
  <2>1. pieces' = pieces /\ pc' \in {"window", "hooks"}
    BY <1>5 DEF PullSize, proc, Goto
  <2>2. pieces = << >> /\ Len(pieces) < Windows
    BY <1>5 DEF PullSize, OneOffer, Windows
  <2>3. PcInv' /\ ProcType'
    BY <1>1, <1>4, <2>1, <2>2, FloorParts DEF PcInv, ProcType, Fetching, Hooking
  <2>4. QED
    BY <1>1, <1>3, <2>3, PartsStay, FloorAgain DEF disk
<1>6. CASE PullWindow
  <2>1. PICK r \in Offers \cup {None} :
           /\ pieces' = IF r = None THEN <<>> ELSE Append(pieces, r)
           /\ Goto(IF r = None THEN "hooks"
                   ELSE IF Len(pieces) + 1 < Windows THEN "window"
                   ELSE IF readonly THEN "hooks" ELSE "judge")
    BY <1>6 DEF PullWindow
  <2>2. pieces \in Seq(Offers) /\ Len(pieces) < Windows /\ Len(pieces) \in Nat
    BY <1>6, FloorParts, SeqIs, SMTT(20) DEF PullWindow, PcInv, ProcType
  <2>3. CASE r = None
    BY <1>1, <1>3, <1>4, <2>1, <2>3, PartsStay, FloorParts, FloorAgain
       DEF PcInv, ProcType, Fetching, Hooking, Windows, Goto, disk
  <2>4. CASE r # None
    <3>1. pieces' \in Seq(Offers) /\ Len(pieces') = Len(pieces) + 1 /\ pieces' # << >>
      BY <2>1, <2>2, <2>4, AppendIs
    <3>2. ProcType'
      BY <1>1, <2>2, <3>1, FloorParts DEF ProcType, Windows
    <3>3. pc' \in {"window", "hooks", "judge"} /\ (pc' = "window" => Len(pieces') < Windows)
      BY <2>1, <2>4, <3>1 DEF Goto
    <3>4. PcInv'
      BY <1>4, <3>1, <3>3 DEF PcInv, Fetching, Hooking
    <3>5. QED
      BY <1>1, <1>3, <3>2, <3>4, PartsStay, FloorAgain DEF disk
  <2>5. QED
    BY <2>3, <2>4
<1>7. QED
  BY <1>5, <1>6

(* The offer that was pulled is one the app composed.                      *)
LEMMA OfferIs ==
    ASSUME FloorInv, pc \in Fetching
    PROVE  /\ offer \in Offers /\ offer.serial \in Serials \cup {0, NoSerial}
           /\ offer.good \subseteq Serials /\ offer.bad \in Seq(Serials)
<1>1. pieces \in Seq(Offers) /\ pieces # << >>
  BY FloorParts DEF PcInv, ProcType
<1>2. offer \in Offers
  BY <1>1, TailIs DEF offer
<1>3. QED
  BY <1>2, OffersAssumption

(* What is called good, in the state.                                      *)
Approved == IF cur \in offer.good THEN [st EXCEPT !.good = cur, !.tries = 0] ELSE st

(* That changes neither the seed nor the list of bad serials.              *)
LEMMA ApprovedIs ==
    ASSUME FloorInv
    PROVE  Approved \in State /\ Approved.seed = st.seed /\ Approved.bad = st.bad
<1>1. st \in State /\ cur \in Serials \cup {NoSerial} /\ 0 \in 0..MAX_TRIES
  BY FloorParts, ItBootAssumption DEF StType, ProcType
<1>2. /\ [st EXCEPT !.good = cur, !.tries = 0] \in State
      /\ [st EXCEPT !.good = cur, !.tries = 0].seed = st.seed
      /\ [st EXCEPT !.good = cur, !.tries = 0].bad = st.bad
  BY <1>1, Zenon DEF State
<1>3. QED
  BY <1>1, <1>2 DEF Approved

(* The host's verdicts leave the seed, and do not make it bad.             *)
LEMMA VerdictsIs ==
    ASSUME FloorInv, pc \in Fetching
    PROVE  /\ Verdicts \in State /\ List(Verdicts.bad) /\ Verdicts.seed = st.seed
           /\ st.seed \in Range(Verdicts.bad) => st.seed \in Range(st.bad)
<1> DEFINE b == Entered(Approved.bad, offer.bad, {Approved.seed})
<1>1. Verdicts = [Approved EXCEPT !.bad = b]
  BY DEF Verdicts, Approved
<1>2. Approved \in State /\ Approved.seed = st.seed /\ Approved.bad = st.bad
  BY ApprovedIs
<1>3. List(st.bad) /\ offer.bad \in Seq(Serials)
  BY OfferIs, FloorParts, SMTT(20) DEF StType
<1>4. List(b) /\ (st.seed \in Range(b) => st.seed \in Range(st.bad))
  BY <1>2, <1>3, EnteredIs
<1> HIDE DEF b
<1>5. QED
  BY <1>1, <1>2, <1>4, StateWith, Zenon DEF List, State

(* A package to go back to is on disk.                                     *)
LEMMA BackIs ==
    ASSUME NEW z, NEW c
    PROVE  LET b == revert_target(z, c) IN b # NoSerial => b # c /\ pkg_ok(b) /\ b \notin Range(z.bad)
BY Zenon DEF revert_target

(* The seed of a state that keeps it and does not call it bad.             *)
LEMMA FloorKept ==
    ASSUME FloorInv, pkgs' = pkgs \/ (Install /\ Staged), state' = state \/ state' = st,
           st'.seed = st.seed, st.seed \in Range(st'.bad) => st.seed \in Range(st.bad)
    PROVE  Floors'
<1>1. Floor(st) /\ (state # None => Floor(state)) /\ TypeOK
  BY FloorParts DEF Floors, FloorInv
<1>2. \A s : pkg_ok(s) => pkg_ok(s)'
  BY <1>1, OkStays
<1>3. Floor(st)'
  BY <1>1, <1>2 DEF Floor
<1>4. (state # None => Floor(state))'
  BY <1>1, <1>2 DEF Floor
<1>5. QED
  BY <1>3, <1>4 DEF Floors

(* A malformed offer changes nothing, and verdicts only what they say: the *)
(* package a revert goes to is on disk.                                    *)
LEMMA JudgeFloor == ASSUME FloorInv, JudgeMalformed \/ Judge PROVE FloorInv'
<1>1. HostType' /\ pc = "judge" /\ todo = {} /\ pc \in Fetching
  BY PartsStay, FloorParts DEF JudgeMalformed, Judge, Quiet, PcInv, Fetching
<1>2. CASE JudgeMalformed
  <2>1. UNCHANGED <<disk, st, cur, start, pieces, todo, loaded>> /\ pc' = "hooks" /\ result' \in Results
    BY <1>2, SMTT(20) DEF JudgeMalformed, Goto, Results
  <2>2. ProcType' /\ PcInv'
    BY <1>1, <2>1, FloorParts DEF ProcType, PcInv, Fetching, Hooking
  <2>3. QED
    BY <1>1, <2>1, <2>2, PartsStay, FloorAgain DEF disk
<1>3. CASE Judge
  <2> DEFINE z == Verdicts
             back == revert_target(z, cur)
  <2>1. UNCHANGED <<pkgs, stage, state, sys, baked, start, pieces, todo, loaded, readonly>> /\ pc' = "choose"
    BY <1>3 DEF Judge, Quiet, Goto
  <2>2. /\ z \in State /\ List(z.bad) /\ z.seed = st.seed
        /\ st.seed \in Range(z.bad) => st.seed \in Range(st.bad)
    BY <1>1, VerdictsIs
  <2>3. back # NoSerial => back \in Serials
    BY BackIs DEF pkg_ok
  <2>4. /\ st' = z \/ st' = [z EXCEPT !.tries = 0]
        /\ \/ current' = current /\ cur' = cur
           \/ back # NoSerial /\ current' = back /\ cur' = back
        /\ result' = result \/ result' \in {"reverted_bad", "enoent"}
    BY <1>3 DEF Judge, flip, NoFlip
  <2> HIDE DEF z, back
  <2>5. 0 \in 0..MAX_TRIES
    BY ItBootAssumption
  <2>6. st' \in State /\ st'.bad = z.bad /\ st'.seed = z.seed
    <3>1. CASE st' = z
      BY <2>2, <3>1
    <3>2. CASE st' = [z EXCEPT !.tries = 0]
      BY <2>2, <2>5, <3>2, SMTT(20) DEF State
    <3>3. QED
      BY <2>4, <3>1, <3>2
  <2>7. StType' /\ Floors'
    BY <2>1, <2>2, <2>6, FloorKept DEF StType
  <2>8. DiskType'
    BY <2>1, <2>3, <2>4, FloorParts DEF DiskType
  <2>9. ProcType'
    BY <2>1, <2>3, <2>4, FloorParts DEF ProcType, Results
  <2>10. PcInv'
    BY <1>1, <2>1, FloorParts DEF PcInv, Fetching, Hooking
  <2>11. QED
    BY <1>1, <2>7, <2>8, <2>9, <2>10, FloorAgain
<1>4. QED
  BY <1>2, <1>3

(* Choose stages the package it fetches, which is one.                     *)
LEMMA ChooseFloor == ASSUME FloorInv, Choose PROVE FloorInv'
<1>1. /\ HostType' /\ StType' /\ Floors' /\ todo = {} /\ pc = "choose" /\ pc \in Fetching
      /\ UNCHANGED <<pkgs, current, state, sys, baked, st, cur, start, pieces, todo, loaded, readonly>>
  BY PartsStay, FloorParts DEF Choose, Quiet, PcInv, Fetching
<1>2. want' = want /\ (\A s : pkg_ok(s)' <=> pkg_ok(s))
  BY <1>1 DEF want, offer, pkg_ok
<1>3. offer.serial \in Serials \cup {0, NoSerial}
  BY <1>1, OfferIs
<1>4. /\ pc' \in {"limit", "flip", "fetch"}
      /\ pc' = "flip" => pkg_ok(want)
      /\ pc' = "fetch" => offer.serial # 0 /\ want # NoSerial
      /\ stage' = IF pc' = "fetch" THEN [serial |-> want, got |-> <<>>] ELSE stage
      /\ result' = result \/ result' \in {"refused", "enoexec", "enoent"}
  BY DEF Choose, Goto
<1>5. pc' = "fetch" => want \in Serials /\ stage'.serial = want /\ stage'.got = << >>
  BY <1>3, <1>4, SMTT(20) DEF want
<1>6. DiskType'
  BY <1>1, <1>4, <1>5, StepsWhole, FloorParts DEF DiskType
<1>7. ProcType'
  BY <1>1, <1>4, FloorParts DEF ProcType, Results
<1>8. PcInv'
  BY <1>1, <1>2, <1>4, <1>5, FloorParts DEF PcInv, Fetching, Hooking
<1>9. QED
  BY <1>1, <1>6, <1>7, <1>8, FloorAgain, SMTT(20)

(* A window of a payload, read or not, stages serials of packages.         *)
LEMMA FetchFloor == ASSUME FloorInv, Staged, Fetch \/ FetchFails PROVE FloorInv'
<1>1. /\ UNCHANGED <<pkgs, current, state, sys, baked, readonly, st, cur, start, pieces, todo, loaded, dir, last, snap>>
      /\ pc = "fetch" /\ pc \in Fetching /\ todo = {}
  BY FloorParts DEF Fetch, FetchFails, proc, host, Host, Read, PcInv, Fetching
<1>2. StType' /\ Floors'
  BY <1>1, PartsStay
<1>3. HostType'
  <2>1. ASSUME NEW r, NEW i, i \in Entries, Host(Read(i, r)) PROVE HostType'
    <3>1. file' \in {file, None} \/ (file' = [idx |-> i, ver |-> dir.payload[i]] /\ dir.payload[i] # None)
      <4>1. file' = IF snap = None THEN file
                    ELSE IF file # None /\ file.idx = i THEN file
                    ELSE IF dir.payload[i] = None THEN None ELSE [idx |-> i, ver |-> dir.payload[i]]
        BY <2>1 DEF Host, Read
      <4>2. QED
        BY <4>1, Zenon
    <3>2. dir.payload[i] \in Serials \cup {None}
      BY <2>1, FloorParts, SMTT(20) DEF HostType, HostTypeOK, Dir
    <3>3. file' \in File \cup {None}
      BY <2>1, <3>1, <3>2, FloorParts DEF HostType, HostTypeOK, File
    <3>4. QED
      BY <1>1, <3>3, FloorParts DEF HostType, HostTypeOK
  <2>2. Len(stage.got) < Steps => Len(stage.got) \div Windows \in Entries
    <3>1. Len(stage.got) \in Nat /\ Cardinality(Entries) \in Nat /\ Entries = 0..(Cardinality(Entries) - 1)
      BY <1>1, SeqIs, ItBootAssumption DEF Staged, Got
    <3>2. ASSUME NEW n \in Nat, NEW c \in Nat, n < 2 * c PROVE n \div 2 \in 0..(c - 1)
      BY <3>2
    <3>3. QED
      BY <3>1, <3>2 DEF Steps, Windows
  <2>3. CASE UNCHANGED <<dir, host>>
    BY <2>3, PartsStay
  <2>4. QED
    BY <2>1, <2>2, <2>3 DEF Fetch, FetchFails
<1>4. CASE Fetch
  <2>1. /\ pc' = pc /\ result' = result /\ Len(stage.got) < Steps
        /\ \E r \in Serials : stage' = [stage EXCEPT !.got = Append(stage.got, r)]
    BY <1>4, SMTT(20) DEF Fetch, proc
  <2>2. PICK r \in Serials : stage' = [stage EXCEPT !.got = Append(stage.got, r)]
    BY <2>1
  <2>3. stage.got \in Seq(Serials) /\ stage = [serial |-> stage.serial, got |-> stage.got]
    BY <1>1 DEF Staged, Got
  <2>4. stage'.serial = stage.serial /\ stage'.got = Append(stage.got, r)
    BY <2>2, <2>3
  <2>5. stage'.got \in Seq(Serials) /\ Len(stage'.got) <= Steps
    BY <2>1, <2>3, <2>4, StepsWhole, SMTT(20)
  <2>6. stage.serial = want /\ want \in Serials /\ want' = want
    BY <1>1, FloorParts, SMTT(20) DEF PcInv, want, offer
  <2>7. DiskType'
    BY <1>1, <2>4, <2>5, <2>6, FloorParts DEF DiskType
  <2>8. ProcType' /\ PcInv'
    BY <1>1, <2>1, <2>4, <2>6, FloorParts DEF ProcType, PcInv, Fetching, Hooking
  <2>9. QED
    BY <1>2, <1>3, <2>7, <2>8, FloorAgain
<1>5. CASE FetchFails
  <2>1. pc' = "limit" /\ result' = "failed" /\ stage' = None
    BY <1>5, SMTT(20) DEF FetchFails, Goto
  <2>2. DiskType'
    BY <1>1, <2>1, FloorParts, SMTT(20) DEF DiskType
  <2>3. ProcType' /\ PcInv'
    BY <1>1, <2>1, FloorParts DEF ProcType, PcInv, Fetching, Hooking, Results
  <2>4. QED
    BY <1>2, <1>3, <2>2, <2>3, FloorAgain
<1>6. QED
  BY <1>4, <1>5

(* What install renames into place is there to move to.                    *)
LEMMA InstallFloor == ASSUME FloorInv, Staged, Install PROVE FloorInv'
<1>1. /\ UNCHANGED <<current, state, sys, baked, st, cur, start, pieces, result, todo, loaded, readonly>>
      /\ pc = "fetch" /\ pc \in Fetching /\ todo = {} /\ pc' = "flip" /\ stage' = None
  BY FloorParts DEF Install, proc, Quiet, Goto, PcInv, Fetching
<1>2. HostType' /\ StType' /\ ProcType'
  BY <1>1, PartsStay DEF Install, Quiet
<1>3. Floors'
  BY <1>1, FloorKept, SMTT(20)
<1>4. /\ want \in Serials /\ want' = want /\ stage.got \in Seq(Serials) /\ Len(stage.got) = Steps
      /\ pkgs' = [pkgs EXCEPT ![want] = stage.got]
  BY <1>1, FloorParts DEF Install, PcInv, want, offer, Staged, Got
<1>5. stage.got \in [1..Steps -> Serials] /\ stage.got # None
  BY <1>4, SeqIs, NoneAssumption
<1>6. pkgs \in [Serials -> [1..Steps -> Serials] \cup {None}]
  BY FloorParts DEF DiskType
<1>7. pkgs' \in [Serials -> [1..Steps -> Serials] \cup {None}] /\ pkg_ok(want)'
  BY <1>4, <1>5, <1>6, SMTT(20) DEF pkg_ok
<1>8. DiskType'
  BY <1>1, <1>7, FloorParts, SMTT(20) DEF DiskType
<1>9. PcInv'
  BY <1>1, <1>7, FloorParts DEF PcInv, Fetching, Hooking
<1>10. QED
  BY <1>2, <1>3, <1>8, <1>9, FloorAgain

(* The move is to a package on disk.                                       *)
LEMMA MoveFloor == ASSUME FloorInv, Move PROVE FloorInv'
<1>1. /\ UNCHANGED <<pkgs, stage, state, sys, baked, start, pieces, todo, loaded, readonly>>
      /\ pc = "flip" /\ pc \in Fetching /\ todo = {} /\ pc' = "limit" /\ HostType'
  BY FloorParts, PartsStay, SMTT(20) DEF Move, Quiet, Goto, PcInv, Fetching
<1>2. want \in Serials
  BY <1>1, FloorParts DEF PcInv, pkg_ok
<1>3. /\ (current' = current /\ cur' = cur) \/ (current' = want /\ cur' = want)
      /\ st' = st \/ st' = Moved
      /\ result' = result \/ result' \in {"failed", "moved"}
  BY DEF Move, flip
<1>4. Moved \in State /\ Moved.seed = st.seed /\ Moved.bad = st.bad
  <2> DEFINE p == IF cur # NoSerial /\ cur \notin Range(st.bad) THEN cur ELSE st.previous
             t == IF want \in {st.seed, st.good} THEN 0 ELSE 1
  <2>1. Moved = [st EXCEPT !.previous = p, !.tries = t]
    BY SMTT(20) DEF Moved
  <2>2. st \in State /\ p \in Serials \cup {NoSerial}
    BY FloorParts DEF StType, ProcType, State
  <2>3. t \in 0..MAX_TRIES
    BY ItBootAssumption, SMTT(20)
  <2> HIDE DEF p, t
  <2>4. QED
    BY <2>1, <2>2, <2>3, Zenon DEF State
<1>5. StType' /\ Floors'
  BY <1>1, <1>3, <1>4, FloorKept, FloorParts DEF StType
<1>6. DiskType'
  BY <1>1, <1>2, <1>3, FloorParts, Zenon DEF DiskType
<1>7. ProcType'
  BY <1>1, <1>2, <1>3, FloorParts DEF ProcType, Results
<1>8. PcInv'
  BY <1>1, FloorParts DEF PcInv, Fetching, Hooking
<1>9. QED
  BY <1>1, <1>5, <1>6, <1>7, <1>8, FloorAgain

(* A package given up after its tries is made bad; it is not the seed.     *)
LEMMA LimitFloor == ASSUME FloorInv, Limit PROVE FloorInv'
<1> DEFINE z == Approved
           back == revert_target(z, cur)
           left == [z EXCEPT !.bad = add_bad(z.bad, cur), !.tries = 0]
<1>1. /\ UNCHANGED <<pkgs, stage, state, sys, baked, start, pieces, todo, loaded, readonly>>
      /\ pc = "limit" /\ pc \in Fetching /\ todo = {} /\ pc' = "hooks" /\ HostType'
  BY FloorParts, PartsStay DEF Limit, Quiet, Goto, PcInv, Fetching
<1>2. z \in State /\ z.seed = st.seed /\ z.bad = st.bad /\ List(st.bad)
  BY ApprovedIs, FloorParts DEF StType
<1>3. back # NoSerial => back \in Serials
  BY BackIs DEF pkg_ok
<1>4. /\ \/ current' = current /\ cur' = cur
         \/ back # NoSerial /\ current' = back /\ cur' = back
      /\ \/ st' = z
         \/ cur # NoSerial /\ cur # z.seed /\ st' = left
         \/ z.tries < MAX_TRIES /\ st' = [z EXCEPT !.tries = z.tries + 1]
      /\ result' = result \/ result' = "reverted_tries"
  BY DEF Limit, flip, NoFlip, Approved
<1> HIDE DEF z, back
<1>5. MAX_TRIES \in Nat /\ 0 \in 0..MAX_TRIES /\ z.tries \in 0..MAX_TRIES /\ z.bad \in Seq(Serials)
  BY <1>2, ItBootAssumption DEF State
<1>6. st' \in State /\ st'.seed = st.seed /\ List(st'.bad) /\ (st.seed \in Range(st'.bad) => st.seed \in Range(st.bad))
  <2>1. CASE st' = z
    BY <1>2, <2>1
  <2>2. CASE cur # NoSerial /\ cur # z.seed /\ st' = left
    <3> DEFINE b == add_bad(z.bad, cur)
    <3>1. cur \in Serials
      BY <2>2, FloorParts, SMTT(20) DEF ProcType
    <3>2. List(b) /\ Range(b) \subseteq Range(z.bad) \cup {cur}
      BY <1>2, <3>1, AddBadIs
    <3> HIDE DEF b
    <3>3. st' = [z EXCEPT !.bad = b, !.tries = 0] /\ b \in Seq(Serials)
      BY <2>2, <3>2 DEF b, List
    <3>4. st' \in State /\ st'.seed = z.seed /\ st'.bad = b
      BY <1>2, <1>5, <3>3, Zenon DEF State
    <3>5. QED
      BY <1>2, <2>2, <3>2, <3>4
  <2>3. CASE z.tries < MAX_TRIES /\ st' = [z EXCEPT !.tries = z.tries + 1]
    <3>1. z.tries + 1 \in 0..MAX_TRIES
      BY <1>5, <2>3, SMTT(20)
    <3>2. QED
      BY <1>2, <2>3, <3>1 DEF State
  <2>4. QED
    BY <1>4, <2>1, <2>2, <2>3
<1>7. StType' /\ Floors'
  BY <1>1, <1>6, FloorKept DEF StType
<1>8. DiskType'
  BY <1>1, <1>3, <1>4, FloorParts DEF DiskType
<1>9. ProcType'
  BY <1>1, <1>3, <1>4, FloorParts DEF ProcType, Results
<1>10. PcInv'
  BY <1>1 DEF PcInv, Fetching, Hooking
<1>11. QED
  BY <1>1, <1>7, <1>8, <1>9, <1>10, FloorAgain

(* Hooks: the targets left to do are targets, and they and the backups     *)
(* hold a package's file or an original.                                   *)
LEMMA HooksFloor ==
    ASSUME FloorInv, ApplyHooks \/ \E t \in Targets : Backup(t) \/ SwapHook(t) \/ SkipHook(t)
    PROVE  FloorInv'
<1>1. /\ UNCHANGED <<pkgs, stage, current, state, cur, start, pieces, result, loaded, readonly>>
      /\ HostType' /\ pc' = "hook"
  BY PartsStay DEF ApplyHooks, Backup, SwapHook, SkipHook, Quiet, disk, proc, Goto
<1>2. CASE ApplyHooks
  <2>1. UNCHANGED disk /\ todo = {}
    BY <1>2, FloorParts DEF ApplyHooks, PcInv
  <2>2. CASE readonly \/ cur = NoSerial
    <3>1. st' = st /\ todo' = {}
      BY <1>2, <2>1, <2>2, SMTT(20) DEF ApplyHooks
    <3>2. PcInv' /\ ProcType'
      BY <1>1, <3>1, FloorParts DEF PcInv, ProcType, Fetching, Hooking
    <3>3. QED
      BY <1>1, <2>1, <3>1, <3>2, PartsStay, FloorAgain DEF disk
  <2>3. CASE ~(readonly \/ cur = NoSerial)
    <3> DEFINE h == st.hooks \cup HooksOf[cur]
    <3>1. st' = [st EXCEPT !.hooks = h] /\ todo' = st'.hooks
      BY <1>2, <2>3 DEF ApplyHooks
    <3>2. cur \in Serials /\ st \in State /\ st.hooks \subseteq Targets
      BY <2>3, FloorParts, Zenon DEF ProcType, StType, State
    <3>3. h \in SUBSET Targets
      BY <3>2, ItBootAssumption, Zenon
    <3> HIDE DEF h
    <3>4. st' \in State /\ st'.seed = st.seed /\ st'.bad = st.bad /\ todo' \in SUBSET Targets
      BY <3>1, <3>2, <3>3 DEF State
    <3>5. StType' /\ Floors'
      BY <2>1, <3>4, FloorKept, FloorParts DEF StType, disk
    <3>6. PcInv' /\ ProcType'
      BY <1>1, <2>3, <3>4, FloorParts, Zenon DEF PcInv, ProcType, Fetching, Hooking
    <3>7. QED
      BY <1>1, <2>1, <3>5, <3>6, PartsStay, FloorAgain
  <2>4. QED
    BY <2>2, <2>3
<1>3. ASSUME NEW t \in Targets, Backup(t) \/ SwapHook(t) \/ SkipHook(t) PROVE FloorInv'
  <2>1. st' = st /\ pc = "hook" /\ (todo' = todo \/ todo' = todo \ {t}) /\ t \in todo
    BY <1>3, Zenon DEF Backup, SwapHook, SkipHook, proc
  <2>2. PcInv' /\ ProcType'
    BY <1>1, <2>1, FloorParts DEF PcInv, ProcType, Fetching, Hooking
  <2>3. /\ sys \in [Targets -> Serials \cup {Stock, Gone}]
        /\ baked \in [Targets -> Serials \cup {Stock, Gone, None}]
        /\ cur \in Serials
    BY <2>1, FloorParts, Zenon DEF DiskType, PcInv, ProcType
  <2>4. /\ baked' = baked \/ baked' = [baked EXCEPT ![t] = sys[t]]
        /\ sys' = sys \/ sys' = [sys EXCEPT ![t] = Content(t)]
    BY <1>3, Zenon DEF Backup, SwapHook, SkipHook, disk
  <2>5. Content(t) \in Serials \cup {Stock, Gone}
    BY <2>3, Zenon DEF Content
  <2>6. DiskType'
    <3>1. baked' \in [Targets -> Serials \cup {Stock, Gone, None}]
      BY <2>3, <2>4
    <3>2. sys' \in [Targets -> Serials \cup {Stock, Gone}]
      BY <2>3, <2>4, <2>5
    <3>3. QED
      BY <1>1, <3>1, <3>2, FloorParts, Zenon DEF DiskType
  <2>7. QED
    BY <1>1, <2>1, <2>2, <2>6, PartsStay, FloorAgain
<1>4. QED
  BY <1>2, <1>3

(* The end of a run: the jobs, the state that is saved, the report.        *)
LEMMA EndFloor == ASSUME FloorInv, Jobs \/ Save \/ Tell PROVE FloorInv'
<1>1. /\ UNCHANGED <<pkgs, stage, current, sys, baked, readonly, st, cur, start, pieces, result, todo>>
      /\ pc' \in {"report", "save", "done"} /\ todo = {} /\ UNCHANGED dir
  BY FloorParts, Zenon DEF Jobs, Save, Tell, Quiet, disk, proc, Goto, PcInv
<1>2. loaded' \subseteq loaded \cup ({cur} \ {NoSerial})
  BY Zenon DEF Jobs, Save, Tell
<1>3. ProcType' /\ PcInv'
  BY <1>1, <1>2, FloorParts DEF ProcType, PcInv, Fetching, Hooking
<1>4. state' = state \/ state' = st
  BY Zenon DEF Jobs, Save, Tell, disk
<1>5. StType' /\ Floors'
  BY <1>1, <1>4, FloorKept, PartsStay
<1>6. DiskType'
  BY <1>1, <1>4, FloorParts, Zenon DEF DiskType, StType
<1>7. HostType'
  <2>1. CASE UNCHANGED host
    BY <1>1, <2>1, PartsStay, SMTT(20)
  <2>2. CASE Report(IF cur = NoSerial THEN 0 ELSE cur, result)
    <3>1. last' = [serial |-> IF cur = NoSerial THEN 0 ELSE cur, result |-> result] /\ UNCHANGED <<snap, file>>
      BY <2>2 DEF Report
    <3>2. last'.serial \in Serials \cup {0} /\ last'.result \in Results
      BY <3>1, FloorParts DEF ProcType
    <3>3. QED
      BY <1>1, <3>1, <3>2, FloorParts DEF HostType, HostTypeOK
  <2>3. QED
    BY <2>1, <2>2 DEF Jobs, Save, Tell, Quiet
<1>8. QED
  BY <1>3, <1>5, <1>6, <1>7, FloorAgain

(* Every step keeps the floor.                                             *)
LEMMA FloorNext == FloorInv /\ AllWhole /\ OneOffer /\ [Next]_vars => FloorInv'
<1> SUFFICES ASSUME FloorInv, AllWhole, OneOffer, [Next]_vars PROVE FloorInv'
  OBVIOUS
<1>1. Staged
  BY DEF AllWhole
<1>2. CASE UNCHANGED vars
  <2>1. UNCHANGED <<dir, host, disk, st, cur, start, loaded, todo, pieces, result, pc, readonly>>
    BY <1>2, SMTT(20) DEF vars, proc
  <2>2. PcInv'
    BY <2>1, FloorParts DEF PcInv, pkg_ok, want, offer, disk
  <2>3. QED
    BY <2>1, <2>2, PartsStay, FloorAgain DEF disk
<1>3. CASE Edit \/ Begin \/ Crash \/ Start \/ StartReadOnly
  BY <1>3, EditFloor, BeginFloor, StartFloor
<1>4. CASE PullSize \/ PullWindow \/ JudgeMalformed \/ Judge
  BY <1>4, PullFloor, JudgeFloor
<1>5. CASE Choose \/ Fetch \/ FetchFails \/ Install \/ Move \/ Limit
  BY <1>1, <1>5, ChooseFloor, FetchFloor, InstallFloor, MoveFloor, LimitFloor
<1>6. CASE ApplyHooks \/ \E t \in Targets : Backup(t) \/ SwapHook(t) \/ SkipHook(t)
  BY <1>6, HooksFloor
<1>7. CASE Jobs \/ Save \/ Tell
  BY <1>7, EndFloor
<1>8. QED
  BY <1>2, <1>3, <1>4, <1>5, <1>6, <1>7 DEF Next, Loader

(* The seed of the saved state is on disk and never on the list of bad     *)
(* serials, and that list never outgrows MAX_SERIALS, whatever the host    *)
(* calls good or bad, however many offers, reverts and failed saves there  *)
(* are and wherever the power fails (it_boot_run, add_bad).                *)
THEOREM SeedAlwaysFloor == Spec => []SeedIsFloor
<1>1. Init => FloorInv /\ AllWhole /\ OneOffer
  BY FloorInit, WholeInit, OneOfferInit
<1>2. FloorInv /\ AllWhole /\ OneOffer /\ [Next]_vars => (FloorInv /\ AllWhole /\ OneOffer)'
  BY FloorNext, WholeNext, OneOfferNext
<1>3. FloorInv => SeedIsFloor
  BY DEF FloorInv, SeedIsFloor, Floor
<1>4. QED
  BY <1>1, <1>2, <1>3, PTL DEF Spec

-----------------------------------------------------------------------------
(* What runs after a boot *)

(* The package a boot would run, what the report calls it, and the seed    *)
(* that is saved.                                                          *)
Usable == IF pkg_ok(current) THEN current ELSE NoSerial
Told(s) == IF s = NoSerial THEN 0 ELSE s
SavedSeed == IF state = None THEN NoSerial ELSE state.seed
Right(t) == sys[t] = IF t \in HooksOf[cur] THEN cur ELSE Original(t)

(* What holds between two steps of a run without a failed flip or copy:    *)
(* the loader's cur is the package current names, unless one that it names *)
(* has just been installed; the jobs are those of the package the run      *)
(* started with until they are swapped; nothing usable means no usable     *)
(* seed either, so the next boot finds nothing either; and the last report *)
(* is right as long as no offer has been taken since.                      *)
Started == {"pull", "window"} \cup Fetching \cup Hooking
Untouched ==
    \/ pc \in {"start", "pull", "window", "done"}
    \/ pc \in {"hooks", "hook", "save", "report"} /\ pieces = <<>>
CurInv == pc \in Started \ {"flip"} => cur = Usable
JobsInv ==
    /\ pc = "start" => loaded \subseteq {Usable} \ {NoSerial}
    /\ pc \in Started \ {"save", "report", "done"} => loaded \subseteq {start} \ {NoSerial}
    /\ pc \in {"save", "report", "done"} => loaded = {cur} \ {NoSerial}
HooksInv ==
    pc \in {"hook", "save", "report"} /\ ~readonly /\ cur # NoSerial =>
        \A t \in st.hooks \ todo : Right(t)
SeedInv ==
    ~readonly =>
        /\ pc \in Started \ {"flip"} /\ cur = NoSerial => ~pkg_ok(st.seed) /\ ~pkg_ok(SavedSeed)
        /\ pc = "start" /\ last # None /\ ~pkg_ok(current) => ~pkg_ok(SavedSeed)
LastInv == last # None /\ Untouched => last.serial = Told(Usable)
RunInv ==
    /\ pc = "off" => loaded = {}
    /\ ~trouble => CurInv /\ JobsInv /\ HooksInv /\ SeedInv /\ LastInv

(* A package is not the mark for none.                                     *)
LEMMA OkIs == ASSUME NEW s, pkg_ok(s) PROVE s \in Serials /\ s # NoSerial
BY ItBootAssumption DEF pkg_ok, NoSerial

(* Before the first run.                                                   *)
LEMMA RunInit == Init => RunInv
BY Zenon DEF Init, RunInv, CurInv, JobsInv, HooksInv, SeedInv, LastInv, Untouched, Started, Fetching, Hooking

(* A step that moves nothing, changes no package and swaps no jobs.        *)
LEMMA RunStill ==
    ASSUME RunInv, UNCHANGED <<pkgs, current, state, st, cur, start, loaded, last, trouble, readonly>>,
           pc \in Started \ {"flip", "save", "report", "done"},
           pc' \in Started \ {"hook", "save", "report", "done"},
           Untouched' => Untouched
    PROVE  RunInv'
<1>1. Usable' = Usable /\ SavedSeed' = SavedSeed /\ \A s : pkg_ok(s)' <=> pkg_ok(s)
  BY Zenon DEF Usable, SavedSeed, pkg_ok
<1>2. pc \notin {"off", "start"} /\ pc' \notin {"off", "start"}
  BY DEF Started, Fetching, Hooking
<1>3. ASSUME ~trouble PROVE CurInv' /\ JobsInv' /\ HooksInv' /\ SeedInv' /\ LastInv'
  <2>1. CurInv /\ JobsInv /\ SeedInv /\ LastInv
    BY <1>3, SMTT(20) DEF RunInv
  <2>2. CurInv' /\ JobsInv' /\ HooksInv'
    BY <1>1, <1>2, <2>1 DEF CurInv, JobsInv, HooksInv
  <2>3. SeedInv'
    BY <1>1, <1>2, <2>1 DEF SeedInv
  <2>4. LastInv'
    BY <1>1, <2>1 DEF LastInv, Told
  <2>5. QED
    BY <2>2, <2>3, <2>4
<1>4. QED
  BY <1>2, <1>3 DEF RunInv

(* The app elsewhere.                                                      *)
LEMMA RunEdit == ASSUME RunInv, Edit \/ UNCHANGED vars PROVE RunInv'
<1>1. UNCHANGED <<disk, host, readonly, pc, proc, loaded, ghost>>
  BY DEF Edit, vars
<1>2. UNCHANGED <<pkgs, current, state, sys, last, st, cur, start, pieces, todo, trouble>>
  BY <1>1, SMTT(20) DEF disk, host, proc, ghost
<1>3. Usable' = Usable /\ SavedSeed' = SavedSeed /\ \A s : pkg_ok(s)' <=> pkg_ok(s)
  BY <1>2, SMTT(20) DEF Usable, SavedSeed, pkg_ok
<1>4. (CurInv => CurInv') /\ (JobsInv => JobsInv') /\ (SeedInv => SeedInv')
  BY <1>1, <1>2, <1>3 DEF CurInv, JobsInv, SeedInv
<1>5. (HooksInv => HooksInv') /\ (LastInv => LastInv')
  BY <1>1, <1>2, <1>3, Zenon DEF HooksInv, LastInv, Untouched, Told, Right, Original
<1>6. QED
  BY <1>1, <1>2, <1>4, <1>5 DEF RunInv

(* A run begins with the jobs of the package current names, or with none.  *)
LEMMA RunBegin == ASSUME RunInv, FloorInv, Begin \/ Crash PROVE RunInv'
<1>1. CASE Crash
  BY <1>1, Zenon DEF Crash, Goto, RunInv, CurInv, JobsInv, HooksInv, SeedInv, LastInv, Untouched,
              Started, Fetching, Hooking
<1>2. CASE Begin
  <2>1. /\ pc' = "start" /\ UNCHANGED <<disk, readonly, loaded, cur, st>>
        /\ trouble' = (pc = "done" /\ trouble)
        /\ \/ pc = "off" /\ last' = None
           \/ pc = "done" /\ last' = last
    BY <1>2, SMTT(20) DEF Begin, Goto, Host, PkgReset, host
  <2>2. Usable' = Usable /\ SavedSeed' = SavedSeed /\ \A s : pkg_ok(s)' <=> pkg_ok(s)
    BY <2>1 DEF Usable, SavedSeed, pkg_ok, disk
  <2>3. CurInv' /\ HooksInv'
    BY <2>1 DEF CurInv, HooksInv, Started, Fetching, Hooking
  <2>4. CASE pc = "off" /\ last' = None
    <3>1. loaded = {}
      BY <2>4 DEF RunInv
    <3>2. JobsInv' /\ SeedInv' /\ LastInv'
      BY <2>1, <2>4, <3>1 DEF JobsInv, SeedInv, LastInv, Started, Fetching, Hooking
    <3>3. QED
      BY <2>1, <2>3, <3>2 DEF RunInv
  <2>5. CASE pc = "done" /\ last' = last
    <3>1. SUFFICES ASSUME ~trouble PROVE JobsInv' /\ SeedInv' /\ LastInv'
      BY <2>1, <2>3, <2>5, Zenon DEF RunInv
    <3>2. cur = Usable /\ loaded = {cur} \ {NoSerial} /\ (last # None => last.serial = Told(Usable))
      BY <2>5, <3>1 DEF RunInv, CurInv, JobsInv, LastInv, Untouched, Started, Hooking
    <3>3. ~readonly /\ cur = NoSerial => ~pkg_ok(SavedSeed)
      BY <2>5, <3>1 DEF RunInv, SeedInv, Started, Hooking
    <3>4. JobsInv'
      BY <2>1, <2>2, <3>2 DEF JobsInv, Started, Fetching, Hooking
    <3>5. SeedInv'
      BY <2>1, <2>2, <3>2, <3>3 DEF SeedInv, Usable, Started, Fetching, Hooking
    <3>6. LastInv'
      BY <2>1, <2>2, <2>5, <3>2 DEF LastInv, Told
    <3>7. QED
      BY <3>4, <3>5, <3>6
  <2>6. QED
    BY <2>1, <2>4, <2>5, SMTT(20)
<1>3. QED
  BY <1>1, <1>2

(* Start: the loader's cur is the package current names, even after it has *)
(* been put back to the seed; then nothing was loaded and no report left.  *)
LEMMA RunStart == ASSUME RunInv, FloorInv, Start \/ StartReadOnly PROVE RunInv'
<1>1. /\ pc = "start" /\ pc' = "pull" /\ start' = cur' /\ UNCHANGED <<pkgs, state, loaded, last, readonly>>
      /\ trouble => trouble'
  <2>1. pc = "start" /\ pc' = "pull" /\ start' = cur' /\ UNCHANGED <<pkgs, state, loaded, last, readonly>>
    BY DEF Start, StartReadOnly, Goto, Quiet, host, disk
  <2>2. trouble => trouble'
    BY Zenon DEF Start, StartReadOnly, flip, NoFlip, ghost
  <2>3. QED
    BY <2>1, <2>2
<1>2. SavedSeed' = SavedSeed /\ \A s : pkg_ok(s)' <=> pkg_ok(s)
  BY <1>1, SMTT(20) DEF SavedSeed, pkg_ok
<1>3. SUFFICES ASSUME ~trouble' PROVE CurInv' /\ JobsInv' /\ SeedInv' /\ LastInv'
  BY <1>1 DEF RunInv, HooksInv
<1>4. JobsInv /\ SeedInv /\ LastInv
  BY <1>1, <1>3 DEF RunInv
<1>5. \/ cur' = Usable /\ current' = current /\ (~readonly /\ cur' = NoSerial => ~pkg_ok(SavedSeed))
      \/ ~readonly /\ ~pkg_ok(current) /\ pkg_ok(SavedSeed) /\ cur' = SavedSeed /\ current' = SavedSeed
  <2>1. CASE StartReadOnly
    BY <2>1 DEF StartReadOnly, Usable, disk
  <2>2. CASE Start
    <3>1. (IF state = None THEN Blank ELSE state).seed = SavedSeed
      BY BlankIs DEF SavedSeed
    <3>2. CASE pkg_ok(current)
      BY <2>2, <3>2, OkIs DEF Start, Usable, NoFlip
    <3>3. CASE ~pkg_ok(current) /\ pkg_ok(SavedSeed)
      BY <1>3, <2>2, <3>1, <3>3, Zenon DEF Start, flip
    <3>4. CASE ~pkg_ok(current) /\ ~pkg_ok(SavedSeed)
      BY <2>2, <3>1, <3>4 DEF Start, NoFlip, Usable
    <3>5. QED
      BY <3>2, <3>3, <3>4
  <2>3. QED
    BY <2>1, <2>2
<1>6. ~readonly => st'.seed \in {SavedSeed, cur'}
  <2>1. CASE Start /\ state = None
    <3>1. st' = [Blank EXCEPT !.seed = cur']
      BY <2>1 DEF Start
    <3>2. QED
      BY <3>1 DEF Blank
  <2>2. CASE Start /\ state # None
    BY <2>2 DEF Start, SavedSeed
  <2>3. QED
    BY <2>1, <2>2 DEF StartReadOnly
<1>7. /\ Usable' = cur'
      /\ Usable' # Usable => Usable = NoSerial /\ ~readonly /\ ~pkg_ok(current) /\ pkg_ok(SavedSeed)
  BY <1>2, <1>5 DEF Usable
<1>8. CurInv'
  BY <1>7 DEF CurInv
<1>9. JobsInv'
  BY <1>1, <1>4, <1>7 DEF JobsInv, Started
<1>10. ~pkg_ok(NoSerial)
  BY OkIs
<1>11. SeedInv'
  BY <1>1, <1>2, <1>5, <1>6, <1>10, OkIs DEF SeedInv
<1>12. LastInv'
  BY <1>1, <1>4, <1>7 DEF LastInv, SeedInv, Untouched, Told
<1>13. QED
  BY <1>8, <1>9, <1>11, <1>12

(* While the offer is pulled, judged and fetched nothing moves.            *)
LEMMA RunPull ==
    ASSUME RunInv, FloorInv,
           PullSize \/ PullWindow \/ JudgeMalformed \/ Choose \/ Fetch \/ FetchFails
    PROVE  RunInv'
<1>1. UNCHANGED <<pkgs, current, state, st, cur, start, loaded, trouble, readonly>>
  BY SMTT(20) DEF PullSize, PullWindow, JudgeMalformed, Choose, Fetch, FetchFails, Quiet, disk, proc, ghost
<1>2. last' = last
  BY DEF PullSize, PullWindow, JudgeMalformed, Choose, Fetch, FetchFails, Quiet, host, Host,
         OfferSize, OfferWindow, Read
<1>3. CASE PullSize \/ PullWindow
  <2>1. pc \in {"pull", "window"} /\ pc' \in {"window", "hooks", "judge"}
    BY <1>3 DEF PullSize, PullWindow, Goto
  <2>2. QED
    BY <1>1, <1>2, <2>1, RunStill, SMTT(20) DEF Untouched, Started, Fetching, Hooking
<1>4. CASE JudgeMalformed \/ Choose \/ Fetch \/ FetchFails
  <2>1. /\ pc \in {"judge", "choose", "fetch"} /\ pc' \in {"hooks", "limit", "flip", "fetch"}
        /\ pieces' = pieces
    BY <1>4 DEF JudgeMalformed, Choose, Fetch, FetchFails, Goto, proc
  <2>2. pieces # << >>
    BY <2>1, FloorParts DEF PcInv, Fetching
  <2>3. QED
    BY <1>1, <1>2, <2>1, <2>2, RunStill, SMTT(20) DEF Untouched, Started, Fetching, Hooking
<1>5. QED
  BY <1>3, <1>4

(* A package just installed may be the one current names.                  *)
LEMMA RunInstall == ASSUME RunInv, Install PROVE RunInv'
<1>1. /\ UNCHANGED <<start, loaded, trouble, readonly>> /\ pc = "fetch" /\ pc' = "flip"
  BY DEF Install, Quiet, proc, ghost, Goto
<1>2. (JobsInv => JobsInv') /\ CurInv' /\ HooksInv' /\ SeedInv' /\ LastInv'
  BY <1>1, Zenon DEF CurInv, JobsInv, HooksInv, SeedInv, LastInv, Untouched, Started, Fetching, Hooking
<1>3. QED
  BY <1>1, <1>2 DEF RunInv

(* A step that flips current to a package on disk or leaves everything,    *)
(* without trouble; the offer has been taken.                              *)
LEMMA RunMoves ==
    ASSUME RunInv, FloorInv, UNCHANGED <<pkgs, state, start, loaded, pieces, readonly>>,
           pc \in Fetching, pc' \in {"choose", "limit", "hooks"},
           st'.seed = st.seed, trouble => trouble',
           ~trouble' => \/ pc # "flip" /\ current' = current /\ cur' = cur
                        \/ current' = cur' /\ pkg_ok(cur')
    PROVE  RunInv'
<1>1. SavedSeed' = SavedSeed /\ \A s : pkg_ok(s)' <=> pkg_ok(s)
  BY SMTT(20) DEF SavedSeed, pkg_ok
<1>2. pieces # << >> /\ pc \in Started \ {"hook", "save", "report", "done"} /\ pc' \notin {"off", "start", "flip", "hook", "save", "report", "done"}
  BY FloorParts, SMTT(20) DEF PcInv, Fetching, Started
<1>3. SUFFICES ASSUME ~trouble' PROVE CurInv' /\ JobsInv' /\ HooksInv' /\ SeedInv' /\ LastInv'
  BY <1>2 DEF RunInv
<1>4. CurInv /\ JobsInv /\ SeedInv
  BY <1>3 DEF RunInv
<1>5. JobsInv' /\ HooksInv' /\ LastInv'
  BY <1>2, <1>4, Zenon DEF JobsInv, HooksInv, LastInv, Untouched
<1>6. CASE pc # "flip" /\ current' = current /\ cur' = cur
  BY <1>1, <1>2, <1>4, <1>5, <1>6, Zenon DEF CurInv, SeedInv, Usable
<1>7. CASE current' = cur' /\ pkg_ok(cur')
  <2>1. Usable' = cur' /\ cur' # NoSerial
    BY <1>1, <1>7, OkIs, Zenon DEF Usable
  <2>2. QED
    BY <1>2, <1>5, <2>1, Zenon DEF CurInv, SeedInv
<1>8. QED
  BY <1>3, <1>6, <1>7, SMTT(20)

(* A revert after a verdict, the move, and a revert at the limit.          *)
LEMMA RunMove == ASSUME RunInv, FloorInv, Judge \/ Move \/ Limit PROVE RunInv'
<1>1. /\ UNCHANGED <<pkgs, state, start, loaded, pieces, readonly>>
      /\ pc \in Fetching /\ pc' \in {"choose", "limit", "hooks"}
  BY DEF Judge, Move, Limit, Quiet, Goto, Fetching
<1>2. trouble => trouble'
  BY Zenon DEF Judge, Move, Limit, flip, NoFlip, ghost
<1>3. CASE Judge
  <2> DEFINE z == Verdicts
             back == revert_target(z, cur)
  <2>1. z \in State /\ z.seed = st.seed
    BY <1>1, VerdictsIs
  <2>2. /\ st' = z \/ st' = [z EXCEPT !.tries = 0]
        /\ \/ current' = current /\ cur' = cur
           \/ back # NoSerial /\ current' = back /\ cur' = back
        /\ pc = "judge"
    BY <1>3 DEF Judge, flip, NoFlip
  <2>3. back # NoSerial => pkg_ok(back)
    BY BackIs
  <2> HIDE DEF z, back
  <2>4. st'.seed = st.seed
    BY <2>1, <2>2 DEF State
  <2>5. QED
    BY <1>1, <1>2, <2>2, <2>3, <2>4, RunMoves
<1>4. CASE Move
  <2>1. /\ st' = st \/ st' = Moved
        /\ ~trouble' => current' = want /\ cur' = want
        /\ pc = "flip"
    BY <1>4, Zenon DEF Move, flip
  <2>2. pkg_ok(want)
    BY <2>1, FloorParts DEF PcInv
  <2>3. st \in State
    BY FloorParts DEF StType
  <2>4. st'.seed = st.seed
    BY <2>1, <2>3, Zenon DEF Moved, State
  <2>5. QED
    BY <1>1, <1>2, <2>1, <2>2, <2>4, RunMoves
<1>5. CASE Limit
  <2> DEFINE z == Approved
             back == revert_target(z, cur)
             left == [z EXCEPT !.bad = add_bad(z.bad, cur), !.tries = 0]
  <2>1. z \in State /\ z.seed = st.seed
    BY ApprovedIs
  <2>2. /\ \/ current' = current /\ cur' = cur
           \/ back # NoSerial /\ current' = back /\ cur' = back
        /\ st' = z \/ st' = left \/ st' = [z EXCEPT !.tries = z.tries + 1]
        /\ pc = "limit"
    BY <1>5 DEF Limit, flip, NoFlip, Approved
  <2>3. back # NoSerial => pkg_ok(back)
    BY BackIs
  <2> HIDE DEF z, back
  <2>4. st'.seed = st.seed
    BY <2>1, <2>2, Zenon DEF State
  <2>5. QED
    BY <1>1, <1>2, <2>2, <2>3, <2>4, RunMoves
<1>6. QED
  BY <1>3, <1>4, <1>5

(* The steps after the last flip: current and the packages stay, and with  *)
(* them all that is said about them.                                       *)
LEMMA RunTail ==
    ASSUME RunInv, UNCHANGED <<pkgs, current, cur, readonly>>, ~trouble', trouble => trouble',
           pc \in Hooking, pc' \in Hooking, st'.seed = st.seed, state' = state \/ state' = st
    PROVE  CurInv' /\ SeedInv' /\ Usable' = Usable
<1>1. Usable' = Usable /\ (\A s : pkg_ok(s)' <=> pkg_ok(s)) /\ SavedSeed' \in {SavedSeed, st.seed, NoSerial}
  BY DEF Usable, SavedSeed, pkg_ok
<1>2. /\ pc \in Started \ {"flip"} /\ pc' \notin {"start", "flip"} /\ CurInv /\ SeedInv
  BY DEF RunInv, Hooking, Started
<1>3. ~pkg_ok(NoSerial)
  BY OkIs, Zenon
<1>4. QED
  BY <1>1, <1>2, <1>3, Zenon DEF CurInv, SeedInv

(* Hooks: a target that is done holds what it should, because its backup   *)
(* is the original.                                                        *)
LEMMA RunHooks ==
    ASSUME RunInv, FloorInv, Kept,
           ApplyHooks \/ \E t \in Targets : Backup(t) \/ SwapHook(t) \/ SkipHook(t)
    PROVE  RunInv'
<1>1. /\ UNCHANGED <<pkgs, current, state, cur, start, pieces, loaded, last, readonly>> /\ (trouble => trouble')
  BY DEF ApplyHooks, Backup, SwapHook, SkipHook, Quiet, disk, proc, host, ghost
<1>2. pc \in {"hooks", "hook"} /\ pc' = "hook" /\ pc \in Hooking /\ pc' \in Hooking
  BY SMTT(20) DEF ApplyHooks, Backup, SwapHook, SkipHook, proc, Goto, Hooking
<1>3. st'.seed = st.seed
  <2>1. st \in State
    BY FloorParts DEF StType
  <2>2. CASE ApplyHooks
    BY <2>1, <2>2 DEF ApplyHooks, State
  <2>3. CASE \E t \in Targets : Backup(t) \/ SwapHook(t) \/ SkipHook(t)
    BY <2>3, Zenon DEF Backup, SwapHook, SkipHook, proc
  <2>4. QED
    BY <2>2, <2>3
<1>4. SUFFICES ASSUME ~trouble' PROVE CurInv' /\ JobsInv' /\ HooksInv' /\ SeedInv' /\ LastInv'
  BY <1>2 DEF RunInv
<1>5. CurInv' /\ SeedInv' /\ Usable' = Usable
  BY <1>1, <1>2, <1>3, <1>4, RunTail, Zenon
<1>6. JobsInv /\ HooksInv /\ LastInv
  BY <1>1, <1>4 DEF RunInv
<1>7. JobsInv'
  BY <1>1, <1>2, <1>6 DEF JobsInv, Started, Hooking
<1>8. LastInv'
  BY <1>1, <1>2, <1>5, <1>6 DEF LastInv, Untouched, Told
<1>9. HooksInv'
  <2>1. CASE ApplyHooks
    BY <1>1, <2>1 DEF ApplyHooks, HooksInv
  <2>2. ASSUME NEW t \in Targets, Backup(t) \/ SwapHook(t) \/ SkipHook(t) PROVE HooksInv'
    <3>1. st' = st /\ pc = "hook" /\ t \in todo
      BY <2>2, Zenon DEF Backup, SwapHook, SkipHook, proc
    <3>2. CASE Backup(t)
      BY <1>1, <1>2, <1>6, <3>1, <3>2, Zenon DEF Backup, proc, HooksInv, Right, Original
    <3>3. CASE SkipHook(t)
      BY <1>4, <3>3 DEF SkipHook
    <3>4. CASE SwapHook(t)
      <4>1. ~NeedsBackup(t) /\ sys' = [sys EXCEPT ![t] = Content(t)] /\ todo' = todo \ {t}
        BY <3>4 DEF SwapHook
      <4>2. sys'[t] = Content(t) /\ \A u \in Targets : u # t => sys'[u] = sys[u]
        BY <4>1 DEF Kept
      <4>3. Content(t) = IF t \in HooksOf[cur] THEN cur ELSE Original(t)
        <5>1. Original(t) # None
          BY NoneAssumption DEF Original
        <5>2. QED
          BY <5>1 DEF Content, Kept
      <4>4. st.hooks \subseteq Targets
        BY FloorParts DEF StType, State
      <4>5. QED
        BY <1>1, <1>2, <1>6, <3>1, <4>1, <4>2, <4>3, <4>4, Zenon DEF HooksInv, Right, Original
    <3>5. QED
      BY <2>2, <3>2, <3>3, <3>4
  <2>3. QED
    BY <2>1, <2>2
<1>10. QED
  BY <1>5, <1>7, <1>8, <1>9

(* The end of a run: the jobs are swapped, the state saved or not, and the *)
(* report says what runs.                                                  *)
LEMMA RunEnd == ASSUME RunInv, FloorInv, Jobs \/ Save \/ Tell PROVE RunInv'
<1>1. /\ UNCHANGED <<pkgs, current, cur, start, pieces, sys, st, todo, readonly>> /\ trouble' = trouble
      /\ state' = state \/ state' = st
  BY Zenon DEF Jobs, Save, Tell, Quiet, disk, proc, ghost
<1>2. /\ \/ Jobs /\ pc = "hook" /\ todo = {} /\ pc' \in {"save", "report"} /\ last' = last
         \/ Save /\ pc = "save" /\ pc' = "report" /\ last' = last /\ loaded' = loaded
         \/ Tell /\ pc = "report" /\ pc' = "done" /\ loaded' = loaded
      /\ pc \in Hooking /\ pc' \in Hooking
  BY Zenon DEF Jobs, Save, Tell, Goto, Quiet, host, Hooking
<1>3. SUFFICES ASSUME ~trouble PROVE CurInv' /\ JobsInv' /\ HooksInv' /\ SeedInv' /\ LastInv'
  BY <1>1, <1>2 DEF RunInv
<1>4. CurInv' /\ SeedInv' /\ Usable' = Usable
  BY <1>1, <1>2, <1>3, RunTail
<1>5. JobsInv /\ HooksInv /\ LastInv /\ CurInv
  BY <1>3, SMTT(20) DEF RunInv
<1>6. HooksInv'
  BY <1>1, <1>2, <1>5 DEF HooksInv, Right, Original
<1>7. JobsInv'
  <2>1. CASE Jobs
    <3>1. loaded \subseteq {start} \ {NoSerial}
      BY <1>2, <1>5, <2>1 DEF JobsInv, Started, Hooking, Jobs
    <3>2. loaded' = (loaded \ (IF start # cur THEN {start} ELSE {})) \cup ({cur} \ {NoSerial})
      BY <2>1 DEF Jobs
    <3>3. loaded' = {cur} \ {NoSerial}
      BY <3>1, <3>2
    <3>4. pc' \in {"save", "report"}
      BY <2>1 DEF Jobs, Goto
    <3>5. QED
      BY <1>1, <3>3, <3>4, SMTT(20) DEF JobsInv
  <2>2. CASE Save \/ Tell
    <3>1. pc \in {"save", "report"} /\ pc' \in {"report", "done"} /\ loaded' = loaded
      BY <2>2 DEF Save, Tell, Goto
    <3>2. QED
      BY <1>1, <1>5, <3>1, SMTT(20) DEF JobsInv
  <2>3. QED
    BY <1>2, <2>1, <2>2
<1>8. LastInv'
  <2>1. CASE last' = last /\ (Untouched' => Untouched)
    BY <1>4, <1>5, <2>1 DEF LastInv, Told
  <2>2. CASE Tell /\ pieces # << >>
    <3>1. last' = [serial |-> IF cur = NoSerial THEN 0 ELSE cur, result |-> result]
      BY <2>2, SMTT(20) DEF Tell, Report
    <3>2. cur = Usable
      BY <1>2, <1>5, <2>2 DEF CurInv, Started, Hooking, Tell
    <3>3. QED
      BY <1>4, <3>1, <3>2 DEF LastInv, Told
  <2>3. CASE Tell /\ pieces = << >>
    <3>1. last' = last /\ Untouched
      BY <2>3 DEF Tell, host, Untouched
    <3>2. QED
      BY <2>1, <3>1
  <2>4. QED
    BY <1>1, <1>2, <2>1, <2>2, <2>3 DEF Untouched
<1>9. QED
  BY <1>4, <1>6, <1>7, <1>8

(* Every step keeps it.                                                    *)
LEMMA RunNext == RunInv /\ FloorInv /\ Kept /\ [Next]_vars => RunInv'
<1> SUFFICES ASSUME RunInv, FloorInv, Kept, [Next]_vars PROVE RunInv'
  OBVIOUS
<1>1. CASE Edit \/ UNCHANGED vars \/ Begin \/ Crash \/ Start \/ StartReadOnly
  BY <1>1, RunEdit, RunBegin, RunStart
<1>2. CASE PullSize \/ PullWindow \/ JudgeMalformed \/ Choose \/ Fetch \/ FetchFails
  BY <1>2, RunPull
<1>3. CASE Install \/ Judge \/ Move \/ Limit
  BY <1>3, RunInstall, RunMove
<1>4. CASE ApplyHooks \/ \E t \in Targets : Backup(t) \/ SwapHook(t) \/ SkipHook(t)
  BY <1>4, RunHooks
<1>5. CASE Jobs \/ Save \/ Tell
  BY <1>5, RunEnd
<1>6. QED
  BY <1>1, <1>2, <1>3, <1>4, <1>5 DEF Next, Loader

(* After a run without a failed flip or copy the jobs of the usable        *)
(* package that current names run and no others, every remembered hook     *)
(* target holds that package's file or the original, and the report the    *)
(* app reads names that package: for any packages and offers, across       *)
(* reruns, silent hosts, reverts and power failures (it_boot_run,          *)
(* apply_hooks, guest_pkg_last_report).                                    *)
THEOREM CurrentAlwaysRuns == Spec => []RunsCurrent
<1> DEFINE I == RunInv /\ FloorInv /\ Kept /\ AllWhole /\ OneOffer
<1>1. Init => I
  BY RunInit, KeptInit, FloorInit, WholeInit, OneOfferInit
<1>2. I /\ [Next]_vars => I'
  BY RunNext, KeptNext, FloorNext, WholeNext, OneOfferNext
<1>3. I => RunsCurrent
  <2> SUFFICES ASSUME RunInv, FloorInv PROVE RunsCurrent
    OBVIOUS
  <2>1. pc = "done" /\ ~trouble => loaded = {s \in {current} : pkg_ok(s)}
    BY OkIs DEF RunInv, CurInv, JobsInv, Usable, Started, Hooking
  <2>2. pc = "report" /\ ~readonly /\ ~trouble /\ cur # NoSerial =>
          \A t \in st.hooks : sys[t] = IF t \in HooksOf[cur] THEN cur ELSE Original(t)
    BY FloorParts, Zenon DEF RunInv, HooksInv, Right, PcInv
  <2>3. pc = "done" /\ ~trouble /\ last # None => last.serial = IF pkg_ok(current) THEN current ELSE 0
    BY OkIs DEF RunInv, LastInv, Untouched, Told, Usable
  <2>4. QED
    BY <2>1, <2>2, <2>3, Zenon DEF RunsCurrent
<1>4. QED
  BY <1>1, <1>2, <1>3, PTL DEF Spec
=============================================================================
