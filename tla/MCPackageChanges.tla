--------------------------- MODULE MCPackageChanges ---------------------------
(* A small instance of PackageChanges for TLC.                               *)
EXTENDS PackageChanges

MCPackages == {"a", "b"}
=============================================================================
