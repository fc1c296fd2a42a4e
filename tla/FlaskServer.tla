---------------------------- MODULE FlaskServer ----------------------------
(***************************************************************************)
(* What LoginLimit and TaskApi, the two models of flask-api-review's       *)
(* fixed/app.py, have in common: the threads of the server and its users.  *)
(***************************************************************************)
CONSTANTS
    Threads,        \* of the one process
    Names           \* the usernames
=============================================================================
