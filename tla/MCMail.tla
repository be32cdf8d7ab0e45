------------------------------- MODULE MCMail -------------------------------
(***************************************************************************)
(* One IMAP mailbox with `initial: all`, read by a task whose runs may     *)
(* fail at any point.                                                      *)
(***************************************************************************)
EXTENDS Mail

TheMailboxes == [pop : {FALSE}, all : {TRUE}, deletes : {FALSE}]
=============================================================================
