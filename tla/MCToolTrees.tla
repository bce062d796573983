---------------------------- MODULE MCToolTrees -----------------------------
(* Three folders: two of one version with different files, one of another.   *)
EXTENDS ToolTrees, TLC

CONSTANTS f1, f2, f3, v1, v2, manifest, code, extra

MCContents == f1 :> {manifest, code} @@ f2 :> {manifest, extra}
                @@ f3 :> {manifest, code, extra}

MCVersionOf == f1 :> v1 @@ f2 :> v2 @@ f3 :> v1
=============================================================================
