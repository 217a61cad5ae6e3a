---------------------------- MODULE GuestPackage ----------------------------
(***************************************************************************)
(* The host side of guest-package delivery, hw/arm/guest-package.c: what   *)
(* guest_pkg_op serves to the guest loader out of the directory the app    *)
(* composes, and the report the app reads back.                            *)
(*                                                                         *)
(* An offer is a record of what its text says; a payload's content is the  *)
(* serial of the package it was built for.  Every offer names the same     *)
(* payload paths, all payloads of a path have one size, and the offer and  *)
(* each payload travel in two windows.  The app is not in the repository:  *)
(* it replaces one file of the directory at a time, each atomically, at    *)
(* any moment.                                                             *)
(***************************************************************************)
EXTENDS Integers, Sequences

CONSTANTS
    Serials,      \* the packages
    Offers,       \* the offers the app may compose
    Entries,      \* payload indices of an offer
    None          \* no offer, no file, no report

VARIABLES
    dir,          \* what the directory holds: an offer and the payloads
    snap,         \* offer and paths: the snapshot served to the guest
    file,         \* file and file_idx: the payload being read, cached
    last          \* the last report of this boot

host == <<snap, file, last>>
Windows == 2

Dir == [offer: Offers \cup {None}, payload: [Entries -> Serials \cup {None}]]
File == [idx: Entries, ver: Serials]

HostTypeOK ==
    /\ dir \in Dir /\ snap \in Offers \cup {None}
    /\ file \in File \cup {None}
    /\ last = None \/ last.serial \in Serials \cup {0}

HostInit == snap = None /\ file = None /\ last = None

(* drop_snapshot and snapshot: read DIR/offer again and drop what was      *)
(* cached.  A missing offer leaves no snapshot.                            *)
Snapshot == snap' = dir.offer /\ file' = None

(* QC_PKG_OFFER with length 0: the size, or an error.                      *)
OfferSize(r) ==
    /\ Snapshot
    /\ r = (dir.offer # None)
    /\ UNCHANGED last

(* Mutant: every window is cut from the offer as it is now.                *)
OfferWindowLive(r) == Snapshot /\ r = snap' /\ UNCHANGED last

(* QC_PKG_OFFER for a window: the offer the window was cut from, or None.  *)
OfferWindow(r) ==
    /\ IF snap = None THEN Snapshot ELSE UNCHANGED <<snap, file>>
    /\ r = snap'
    /\ UNCHANGED last

(* QC_PKG_READ of payload i, for its size or a window: the version of the  *)
(* payload it is served from, or None.  The file is read whole the first   *)
(* time and kept until another payload is asked for.                       *)
Read(i, r) ==
    /\ LET fresh == IF dir.payload[i] = None THEN None
                    ELSE [idx |-> i, ver |-> dir.payload[i]]
       IN file' = IF snap = None THEN file
                  ELSE IF file # None /\ file.idx = i THEN file ELSE fresh
    /\ r = IF snap = None \/ file' = None THEN None ELSE file'.ver
    /\ UNCHANGED <<snap, last>>

(* QC_PKG_REPORT.                                                          *)
Report(serial, result) ==
    /\ last' = [serial |-> serial, result |-> result]
    /\ UNCHANGED <<snap, file>>

(* guest_pkg_reset, on a guest reset.                                      *)
PkgReset == snap' = None /\ file' = None /\ last' = None

(* The app replaces the offer, or one payload.                             *)
WriteOffer(o) == dir.offer # o /\ dir' = [dir EXCEPT !.offer = o]
WritePayload(i, v) == dir.payload[i] # v /\ dir' = [dir EXCEPT !.payload[i] = v]
=============================================================================
