---------------------------- MODULE MCBlobSystem ----------------------------
(***************************************************************************)
(* Small instances of BlobSystem for TLC.                                   *)
(***************************************************************************)
EXTENDS BlobSystem, TLC

CONSTANTS k1, r1, r2, w1, w2

MCSymmetry == Permutations({r1, r2}) \cup Permutations({w1, w2})

(* The parts each run exercises, and those that show what the code does not
   keep. *)
Collected == {"server", "gc", "put"}
Verified == {"server", "verify", "loss"}
Maintained == {"server", "gc", "verify", "loss"}
Toolbox == {"server", "gc", "verify", "migrate", "put", "switch"}
VerifyBesideMigrate == {"server", "verify", "migrate"}

(* The states LockedTools allows and no other. *)
KeptLocked == LockedTools'
=============================================================================
