--------------------------- MODULE MCCoreRequests ---------------------------
(***************************************************************************)
(* Mixes of requests for the runs of CoreRequests.                         *)
(***************************************************************************)
EXTENDS CoreRequests, TLC

CONSTANTS r1, r2, r3

DecryptMutate        == r1 :> "decrypt" @@ r2 :> "mutate"
OpenCapsuleExtract   == r1 :> "open" @@ r2 :> "capsule" @@ r3 :> "extract"
ThreeKinds           == r1 :> "decrypt" @@ r2 :> "extractAll" @@ r3 :> "mutate"
AllFaults            == FaultNames
=============================================================================
