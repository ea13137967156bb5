------------------------ MODULE MCRecursiveDeletion ------------------------
(* A small server for RecursiveDeletion:       *)
(*     home: photos: cover, album: picture     *)
(*           letters: drafts                   *)
(*           empty                             *)
EXTENDS RecursiveDeletion, TLC

CONSTANTS home, photos, album, letters, drafts, empty, cover, picture

MCParent ==
    photos :> home @@ album :> photos @@ letters :> home @@ drafts :> letters
    @@ empty :> home @@ cover :> photos @@ picture :> album
=============================================================================
