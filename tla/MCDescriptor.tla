------------------------------ MODULE MCDescriptor -----------------------------
(* Declaration with one real command, in bytes of eight bits:                 *)
(* aci_gatt_add_char_desc as the catalog lays it out and aci/gatt.rs declares *)
(* it.  What its members hold does not matter to their size: each parameter   *)
(* of fixed width has one value here, and the catalog documents it.           *)
EXTENDS Declaration

MCReleases == {1}
MCTargets == {<<1, "full">>}

Scalar(name, width) == [name |-> name, kind |-> "scalar", width |-> width, signed |-> FALSE]

AddCharDesc ==
  <<Scalar("Service_Handle", 2), Scalar("Char_Handle", 2), Scalar("Char_Desc_Uuid_Type", 1),
    [name |-> "Char_Desc_Uuid", kind |-> "union", selector |-> "Char_Desc_Uuid_Type",
     variants |-> <<[tag |-> 1, width |-> 2], [tag |-> 2, width |-> 16]>>],
    Scalar("Char_Desc_Value_Max_Len", 1), Scalar("Char_Desc_Value_Length", 1),
    [name |-> "Char_Desc_Value", kind |-> "counted", element |-> [width |-> 1],
     count |-> "Char_Desc_Value_Length", capacity |-> 243],
    Scalar("Security_Permissions", 1), Scalar("Access_Permissions", 1),
    Scalar("GATT_Evt_Mask", 1), Scalar("Enc_Key_Size", 1), Scalar("Is_Variable", 1)>>

MCHistories ==
  "aci_gatt_add_char_desc" :>
    [entries |->
       <<[code |-> 64773, carried |-> TRUE, excluded |-> FALSE, resolved |-> TRUE,
          completes |-> TRUE, status |-> TRUE, params |-> AddCharDesc,
          returns |-> <<Scalar("Char_Desc_Handle", 2)>>, bearers |-> <<>>,
          profiles |-> {"full"}]>>,
     domains |->
       {[member |-> AddCharDesc[p].name, side |-> "params", first |-> 1, last |-> 1,
         kind |-> "values", unit |-> None,
         items |-> <<[first |-> 1, last |-> 1, condition |-> [kind |-> "none"],
                      length |-> None]>>] : p \in {1, 2, 5, 8, 9, 10, 11, 12}}]

Spelled ==
  "Service_Handle" :> "service_handle" @@ "Char_Handle" :> "char_handle"
    @@ "Char_Desc_Uuid_Type" :> "char_desc_uuid_type" @@ "Char_Desc_Uuid" :> "char_desc_uuid"
    @@ "Char_Desc_Value_Max_Len" :> "char_desc_value_max_len"
    @@ "Char_Desc_Value_Length" :> "char_desc_value_length"
    @@ "Char_Desc_Value" :> "char_desc_value"
    @@ "Security_Permissions" :> "security_permissions"
    @@ "Access_Permissions" :> "access_permissions" @@ "GATT_Evt_Mask" :> "gatt_evt_mask"
    @@ "Enc_Key_Size" :> "enc_key_size" @@ "Is_Variable" :> "is_variable"
    @@ "Char_Desc_Handle" :> "char_desc_handle"

Integer(width) ==
  [shape |-> "plain", width |-> width, len |-> 1, integer |-> TRUE, values |-> None,
   bits |-> None, ranges |-> None, unit |-> None, lengths |-> None, fallback |-> FALSE,
   last |-> 0, struct |-> None]

Single(width) == [Integer(width) EXCEPT !.integer = FALSE, !.values = {1}]

FieldDecl(name, type) ==
  [name |-> name, wire |-> None, on |-> TRUE, since |-> None, before |-> None,
   omitted |-> {}, type |-> [t \in MCTargets |-> type]]

MCDeclarations ==
  {[c_name |-> "aci_gatt_add_char_desc", kind |-> "command",
    params |->
      <<FieldDecl("service_handle", Single(2)), FieldDecl("char_handle", Single(2)),
        FieldDecl("char_desc_uuid",
          [shape |-> "union", variants |-> <<[tag |-> 1, width |-> 2], [tag |-> 2, width |-> 16]>>]),
        FieldDecl("char_desc_value_max_len", Single(1)),
        FieldDecl("char_desc_value", [shape |-> "slice", item |-> Integer(1)]),
        FieldDecl("security_permissions", Single(1)), FieldDecl("access_permissions", Single(1)),
        FieldDecl("gatt_evt_mask", Single(1)), FieldDecl("enc_key_size", Single(1)),
        FieldDecl("is_variable", Single(1))>>,
    returns |-> <<FieldDecl("char_desc_handle", Integer(2))>>]}

MCAnswers == "aci_gatt_add_char_desc" :> {<<1, 0>>}
NoStructs == <<>>
==============================================================================
