------------------------------ MODULE MCImages ------------------------------
(* An instance of Images: the first version of the source image names a user *)
(* and mounts something, the feature mounts something else there and asks    *)
(* for a privilege, and devcontainer.json may name another user.             *)
EXTENDS Images, TLC

CONSTANTS own, feature, vscode, dev, volume, bind, cap, d1, d2

MCUserOf == [e \in Entry |-> IF e[1] = "source" THEN vscode
                             ELSE IF e[1] = "config" THEN dev ELSE None]
MCMountOf == [e \in Entry |-> IF e[1] = "source" THEN volume
                              ELSE IF e[1] = "feature" THEN bind ELSE None]
MCPrivilegesOf == [e \in Entry |-> IF e[1] = "feature" THEN {cap} ELSE {}]
MCLabelled == {1}

(* The files of a build are only compared. *)
Symmetry == Permutations(Files)
=============================================================================
