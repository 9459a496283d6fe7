------------------------------ MODULE Answers ------------------------------
(***************************************************************************)
(* How a failure inside a service reaches a client of the gateway: the gRPC *)
(* code the service gives it, the HTTP status the gateway makes of the code,*)
(* and the statuses of the requests it passes through.  Pure operators,     *)
(* used by Gateway.                                                         *)
(***************************************************************************)
EXTENDS Integers

Codes == {"OK", "NotFound", "InvalidArgument", "Unauthenticated", "PermissionDenied",
          "AlreadyExists", "Internal", "Unavailable", "Canceled"}

writeGRPCError(code) ==
    CASE code = "NotFound" -> 404
      [] code = "InvalidArgument" -> 400
      [] code = "Unauthenticated" -> 401
      [] code = "PermissionDenied" -> 403
      [] code = "AlreadyExists" -> 409
      [] OTHER -> 500

-----------------------------------------------------------------------------
(* Auth.  "failure" is any error that has no name of its own: the database, *)
(* a signature, a user deleted under the request, a message above gRPC's    *)
(* limit of 4 MB.  A token may carry a user id that is no UUID.             *)

AuthErrors(op) ==
    CASE op = "SignUp" -> {"ErrPasswordRequired", "ErrWeakPassword", "ErrEmailAlreadyTaken",
                           "failure"}
      [] op \in {"SignIn", "RefreshToken"} -> {"ErrInvalidCredentials", "ErrUserBanned",
                                               "failure"}
      [] op = "GetUser" -> {"invalid user_id", "ErrUserNotFound", "failure"}
      [] op = "DeleteUser" -> {"invalid user_id", "failure"}
      [] OTHER -> {"failure"}

mapAuthError(e) ==
    CASE e = "ErrInvalidCredentials" -> "Unauthenticated"
      [] e = "ErrUserBanned" -> "PermissionDenied"
      [] e = "ErrEmailAlreadyTaken" -> "AlreadyExists"
      [] e \in {"ErrPasswordRequired", "ErrWeakPassword"} -> "InvalidArgument"
      [] OTHER -> "Internal"

AuthCode(op, e) ==
    CASE op = "SignOut" -> "OK"
      [] e = "invalid user_id" -> "InvalidArgument"
      [] e = "ErrUserNotFound" -> "NotFound"
      [] OTHER -> mapAuthError(e)

-----------------------------------------------------------------------------
(* Storage.  The names of buckets and files are not looked at on this port. *)

StorageErrors(op) ==
    CASE op = "CreateBucket" -> {"ErrBucketAlreadyExists", "failure"}
      [] op = "ListBuckets" -> {"failure"}
      [] op \in {"DeleteBucket", "ListFiles"} -> {"ErrBucketNotFound", "failure"}
      [] op = "Upload" -> {"ErrBucketNotFound", "ErrFileTooLarge", "ErrMimeTypeNotAllowed",
                           "ErrFileAlreadyExists", "failure"}
      [] OTHER -> {"ErrBucketNotFound", "ErrFileNotFound", "failure"}

mapStorageError(e) ==
    CASE e \in {"ErrBucketNotFound", "ErrFileNotFound"} -> "NotFound"
      [] e \in {"ErrBucketAlreadyExists", "ErrFileAlreadyExists"} -> "AlreadyExists"
      [] e \in {"ErrFileTooLarge", "ErrMimeTypeNotAllowed"} -> "InvalidArgument"
      [] OTHER -> "Internal"

-----------------------------------------------------------------------------
(* The errors of the HTTP ports behind the pass-through routes, those of    *)
(* the reading of a JSON body (axum: 413, 422) among them.                  *)

PassedOn(op) ==
    CASE op = "MigratePreview" -> {400, 413, 500}
      [] op = "MigrateApply" -> {400, 409, 413, 422, 500}
      [] op = "OAuthInitiate" -> {400, 404, 500}
      [] OTHER -> {400, 401, 403, 404, 500}
=============================================================================
