--------------------------- MODULE MCBackupFiles ---------------------------
EXTENDS BackupFiles, TLC

CONSTANTS c1, c2, c3, app, app_old, prod, prod_app, bucket, folder, drive

(* Two databases, the one's name running into the other's; the second is     *)
(* stored on Drive, where no folder was named.                               *)
TwoNames == c1 :> app @@ c2 :> app_old
BucketAndDrive == c1 :> bucket @@ c2 :> drive
Keep12 == c1 :> 1 @@ c2 :> 2

(* Database prod, in a bucket without a prefix and in a folder on Drive, and *)
(* database app in that bucket with the prefix "prod_": the first pattern    *)
(* finds what the last stores.                                               *)
ThreeNames == c1 :> prod @@ c2 :> prod @@ c3 :> app
ThreeStems == c1 :> prod @@ c2 :> prod @@ c3 :> prod_app
ThreePlaces == c1 :> bucket @@ c2 :> folder @@ c3 :> bucket
Keep1 == c1 :> 1 @@ c2 :> 1 @@ c3 :> 1

Alike == {<<app, app_old>>, <<prod, prod_app>>}

Symm == Permutations(Task)
=============================================================================
