-------------------------------- MODULE Advisory --------------------------------
(***************************************************************************)
(* advisory.rs: where the notice of an escalation goes in the result that  *)
(* caused it.  An operator gives the tier that fired and the result after. *)
(***************************************************************************)
EXTENDS Json, Integers

InjectionTier == {"StructuredContent", "ContentBlock", "ContentBlockShadowed", "NoSafeField"}

(* The wording, but for what varies in it. *)
Shown(new_state) == <<"Elevated", "Contaminated", "Poisoned">>[new_state]

build_advisory_text(new_state, rule_ids) ==
    <<"[MAGUS ADVISORY", Shown(new_state)>> \o rule_ids \o <<"]">>

Extended(v, advisory) == Str(v.str \o <<"\n">> \o advisory)

(* Tier 1: structuredContent.content is a string. *)
HasStructuredString(result) ==
    /\ Has(result, "structuredContent")
    /\ HasKind(Get(result, "structuredContent"), "content", "string")

(* The mutant gives the notice a key of its own. *)
InStructured_new_key(result, advisory) ==
    Put(result, "structuredContent",
        Put(Get(result, "structuredContent"), "advisory", Str(advisory)))

InStructured(result, advisory) ==
    LET structured == Get(result, "structuredContent")
    IN Put(result, "structuredContent",
           Put(structured, "content", Extended(Get(structured, "content"), advisory)))

(* Tier 2: blocks of content[] of type "text" whose text is a string.       *)
TextBlocks(result) ==
    IF ~HasKind(result, "content", "array") THEN {}
    ELSE {i \in DOMAIN Get(result, "content").items :
             LET block == Get(result, "content").items[i]
             IN /\ Has(block, "type") /\ Get(block, "type") = Str(<<"text">>)
                /\ HasKind(block, "text", "string")}

InFirstBlock(result, advisory) ==
    LET blocks == Get(result, "content").items
        first  == CHOOSE i \in TextBlocks(result) : \A j \in TextBlocks(result) : i <= j
    IN Put(result, "content",
           Arr([blocks EXCEPT ![first] = Put(@, "text", Extended(Get(@, "text"), advisory))]))

inject_advisory(result, advisory) ==
    IF HasStructuredString(result)
    THEN [tier |-> "StructuredContent", result |-> InStructured(result, advisory)]
    ELSE IF TextBlocks(result) # {}
    THEN [tier   |-> IF Has(result, "structuredContent") THEN "ContentBlockShadowed" ELSE "ContentBlock",
          result |-> InFirstBlock(result, advisory)]
    ELSE [tier |-> "NoSafeField", result |-> result]
=============================================================================
