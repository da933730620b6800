------------------------------- MODULE ToolListing -------------------------------
(***************************************************************************)
(* Tool descriptions: the outcome of their scan at discovery, and what     *)
(* tools/list shows of them.  A description is a sequence of characters of *)
(* the kinds that matter.                                                  *)
(***************************************************************************)
EXTENDS Sequences, Integers

CONSTANT DescriptionOf    \* definition hash -> description

Outcome == {"none", "hit", "poison"}    \* DescriptionHitOutcome

TagCharacter == "tag"        \* a code point of the Tag block
ZeroWidth    == "zw"
Space        == " "

(* The mutant forgets whose tool it is.                                     *)
HitKey_name(server_id, name) == <<name, name>>

HitKey(server_id, name) == <<server_id, name>>

(* Every tool leaves an outcome; a later one of the same name replaces it.  *)
scanned(description_hits, server_id, tools) ==
    LET named(key) == {k \in DOMAIN tools : HitKey(server_id, tools[k].name) = key}
    IN [key \in DOMAIN description_hits \cup {HitKey(server_id, tools[k].name) : k \in DOMAIN tools}
            |-> IF named(key) = {} THEN description_hits[key]
                ELSE tools[CHOOSE k \in named(key) : \A j \in named(key) : j <= k].hit]

(* The characters at some places of a text, in their order. *)
Kept(text, places) ==
    LET out[n \in 0..Len(text)] ==
            IF n = 0 THEN <<>>
            ELSE IF n \in places THEN Append(out[n - 1], text[n]) ELSE out[n - 1]
    IN out[Len(text)]

delete_unicode_tags(text) == Kept(text, {i \in DOMAIN text : text[i] # TagCharacter})
strip_zero_width(text)    == Kept(text, {i \in DOMAIN text : text[i] # ZeroWidth})

(* The flag in_tag, when the loop is at a place: "<" came, and no ">" since. *)
InTag(text, i) == \E k \in 1..i - 1 : text[k] = "<" /\ \A j \in k..i - 1 : text[j] # ">"

(* What stands between "<" and ">" goes, with a space in its place. *)
WithoutMarkup(text) ==
    Kept([i \in DOMAIN text |-> IF text[i] = ">" THEN Space ELSE text[i]],
         {i \in DOMAIN text : text[i] = ">" \/ (text[i] # "<" /\ ~InTag(text, i))})

(* split_whitespace and join: a space is kept behind a word, if another     *)
(* word follows.                                                            *)
Respaced(text) ==
    Kept(text, {i \in DOMAIN text : text[i] = Space =>
                   /\ i > 1 /\ text[i - 1] # Space
                   /\ \E j \in i..Len(text) : text[j] # Space})

strip_formatting(text) == Respaced(WithoutMarkup(text))

sanitize_for_forwarding(raw) == strip_formatting(strip_zero_width(delete_unicode_tags(raw)))

Withheld == <<"[Description withheld]">>

(* A missing outcome would count as no hit. *)
sanitize_description(raw, grade, hit_outcome, strict_description_scanning) ==
    IF \/ grade \in {"Unvalidated", "Suspicious"}
       \/ hit_outcome = "poison"
       \/ hit_outcome = "hit" /\ strict_description_scanning
    THEN Withheld ELSE sanitize_for_forwarding(raw)

(* The places of the tools of some servers.  A tool that is taken out of    *)
(* its list leaves the others at their places.                              *)
Places(entries) == UNION {{<<i, k>> : k \in DOMAIN entries[i].tools} : i \in DOMAIN entries}

ToolIn(entries, at) == entries[at[1]].tools[at[2]]

(* The answer to tools/list, in the order of the places. *)
handle_tools_list(discovered, description_hits, strict_description_scanning) ==
    [at \in Places(discovered) |->
        LET server == discovered[at[1]]
            t      == ToolIn(discovered, at)
            key    == HitKey(server.server_id, t.name)
            hit    == IF key \in DOMAIN description_hits THEN description_hits[key] ELSE "none"
        IN [name |-> t.name,
            description |-> sanitize_description(DescriptionOf[t.hash], server.source_grade, hit,
                                                 strict_description_scanning)]]
=============================================================================
