----------------------------- MODULE MCContacts -----------------------------
(* Instances of Contacts. *)
EXTENDS Contacts
=============================================================================
