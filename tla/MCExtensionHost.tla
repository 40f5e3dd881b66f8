--------------------------- MODULE MCExtensionHost ---------------------------
(* The instance of ExtensionHost that TLC checks. *)
EXTENDS ExtensionHost, TLC

CONSTANTS base, sub

(* sub is a subclass of base. *)
MCSuperTypes == base :> {base} @@ sub :> {base, sub}
=============================================================================
