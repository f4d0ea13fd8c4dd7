-------------------------------- MODULE Actors --------------------------------
(*****************************************************************************)
(* Whom Accounts and Roles are about: the users of the database and the      *)
(* requests of HTTP that may be under way at once.                           *)
(*****************************************************************************)

CONSTANTS
  Users,
  Requests,
  None \* no user, no request, or nothing read
===============================================================================
