------------------------------- MODULE BackOffice -------------------------------
(***************************************************************************)
(* The tables of the back office together: those of exams, participants and    *)
(* files, which composePackage reads, and those of accounts and sites.         *)
(***************************************************************************)
EXTENDS PackageContents, Access

\* The type invariants of the parts: tables and local state of requests are well formed, rows
\* refer to rows that exist, and the proctors of a site are the list of one PUT.
BackOfficeTypeOK == AuthoringTypeOK /\ RosterTypeOK /\ AccessTypeOK
================================================================================
