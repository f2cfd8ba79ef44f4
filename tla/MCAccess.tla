------------------------------- MODULE MCAccess -------------------------------
(* Values for TLC.  Sessions and Accounts share no variable: Accounts says who may open a  *)
(* session, Sessions what a browser does with one.  A behaviour moves one of the two: the  *)
(* browser when its workload is empty.                                                     *)
EXTENDS Sessions, Accounts, TLC

CONSTANTS google1, google2, kakao

MCProvider == google1 :> "google" @@ google2 :> "google" @@ kakao :> "kakao"

MCWorkloads == {
    {},
    {"register", "link", "unlink"},
    {"social", "link", "unlink", "merge"},
    {"signup", "social", "merge"},
    {"social", "mail"},
    {"register", "login", "refresh", "change", "mail"},
    {"register", "organization", "invite", "accept", "decline", "cancel", "update", "deactivate"},
    {"register", "organization", "invite", "accept", "cancel", "overlap"},
    {"signup", "invite", "signupAccept", "cancel", "overlap"}}

AccessInit == Init /\ AccountsInit
AccessNext ==
    \/ load = {} /\ Next /\ UNCHANGED rows
    \/ AccountsNext /\ UNCHANGED vars
AccessSpec == AccessInit /\ [][AccessNext]_<<vars, rows>> /\ Fairness
=============================================================================
