--------------------------- MODULE MCParamEffects ---------------------------
(***************************************************************************)
(* Three functions: f and g with any one or two of the paths listed, h     *)
(* with one of the bodies of Ends.  In a few programs max_functions keeps  *)
(* h out.                                                                  *)
(***************************************************************************)
EXTENDS ParamEffects, TLC

CONSTANTS f, g, h
MCFuncs == {f, g, h}

Pass(x) == {[op |-> "pass", to |-> x]}
Invoke(x) == {[op |-> "invoke", to |-> x]}
Do(op) == {[op |-> op]}

Either(paths) == {{p, q} : p, q \in paths}
PathsF == {{}, Do("cancel"), Do("store"), Pass(f), Pass(g), Pass(h), Pass(g) \cup Pass(h), Invoke(g)}
PathsG == {{}, Do("cancel"), Do("return"), Pass(f), Pass(h), Invoke(f), Invoke(h)}
Ends == {{{}}, {Do("cancel")}, {Do("cancel"), {}}, {Pass(h), Do("cancel")}, {Pass(f) \cup Pass(g)}}

Package(F, G, H, admitted) ==
  [body |-> (f :> F) @@ (g :> G) @@ (h :> H), selected |-> admitted]

MCPrograms ==
  {Package(F, G, H, MCFuncs) : F \in Either(PathsF), G \in Either(PathsG), H \in Ends}
    \cup {Package(F, G, {Do("cancel")}, {f, g}) : F \in Either(PathsF), G \in {{{}}, {Pass(h)}}}
=============================================================================
