------------------------------ MODULE MCEasyFS ------------------------------
(* Three data blocks and two directory entries.  "longer" is a name that the *)
(* directory cuts to "long"; the restricted instance uses short names only.  *)
EXTENDS FileClients, TLC
MCStored == "a" :> "a" @@ "long" :> "long" @@ "longer" :> "long"
MCShort == "a" :> "a" @@ "b" :> "b" @@ "c" :> "c"
=============================================================================
