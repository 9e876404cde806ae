------------------------------ MODULE MCPicker ------------------------------
(* Instances of Picker for TLC. *)
EXTENDS Picker

(* Two coloured categories and the one without colours, two cloths in one. *)
MCItemDic == [hat |-> {"cap", "suncap"}, top |-> {"short"}, accessories |-> {"glasses"}]
=============================================================================
