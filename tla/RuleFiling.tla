----------------------------- MODULE RuleFiling -----------------------------
(***************************************************************************)
(* The classification rules (core, rules/mod.rs) and the filing of imports *)
(* by them.                                                                *)
(*                                                                         *)
(* rules.toml is saved from the rules window of the desktop, or edited by  *)
(* hand.  An import of the connector, on a thread of its own, reads the    *)
(* file when it begins, matches the rules against its metadata and is      *)
(* filed when its directory is written.  The file is saved in place, with  *)
(* no lock.  A text is the set of its rules: their order is only that of   *)
(* the categories in metadata.toml.                                        *)
(***************************************************************************)
CONSTANTS
    Imports,
    Targets, Unmatched,  \* category paths
    FieldNames,          \* names of fields in queries
    Patterns, Compiled,  \* what a query looks for, and the patterns that are one
    Words, Found,        \* values of fields, and which pattern is found in which
    Broken               \* a text that is not TOML or not of rules

ColumnOf == [title |-> "title", abstract |-> "abstract", abstract_note |-> "abstract",
             doi |-> "doi", uri |-> "uri", url |-> "uri", type |-> "type",
             item_type |-> "type", venue |-> "venue", year |-> "year",
             tags |-> "tags", tag |-> "tags"]
Columns == {ColumnOf[f] : f \in DOMAIN ColumnOf}
Metadata == [Columns -> SUBSET Words]

Rule == [target : Targets, query : SUBSET [field : FieldNames, pattern : Patterns]]
Text == {Broken} \cup SUBSET Rule

VARIABLES
    rulesFile,  \* rules.toml: "missing", "empty" (being saved) or "whole"
    rules,      \* what it says
    rulesWindow, \* where the save of the rules window is
    draft,      \* the text in the window
    saved,      \* the text that was last saved or edited (history)
    byHand,     \* the file has been edited by hand (history)
    cutOff,     \* a save was cut off or met an edit by hand (history)
    phase,      \* where an import is
    metadata,   \* its metadata
    matched,    \* the categories its rules give, then those it is filed under
    governing,  \* what was saved last when it read the file (history)
    astray      \* the imports that read a file being saved, or cut off (history)

rulesOnDisk == <<rulesFile, rules>>
rulesEdited == <<rulesOnDisk, rulesWindow, draft, saved, byHand, cutOff>>
importing == <<phase, metadata, matched, governing, astray>>
filing == <<rulesEdited, importing>>

FilingType ==
    /\ rulesFile \in {"missing", "empty", "whole"} /\ rules \in Text
    /\ rulesWindow \in {"open", "empty", "write", "tell"} /\ draft \in Text
    /\ saved \in Text /\ byHand \in BOOLEAN /\ cutOff \in BOOLEAN
    /\ phase \in [Imports -> {"new", "load", "file", "filed", "failed"}]
    /\ metadata \in [Imports -> Metadata]
    /\ matched \in [Imports -> SUBSET (Targets \cup {Unmatched})]
    /\ governing \in [Imports -> Text]
    /\ astray \subseteq Imports

FilingInit ==
    /\ rulesFile = "missing" /\ rules = {} /\ rulesWindow = "open" /\ draft = {}
    /\ saved = {} /\ byHand = FALSE /\ cutOff = FALSE
    /\ phase = [i \in Imports |-> "new"]
    /\ metadata = [i \in Imports |-> [c \in Columns |-> {}]]
    /\ matched = [i \in Imports |-> {}] /\ governing = [i \in Imports |-> {}]
    /\ astray = {}

-----------------------------------------------------------------------------
\* parse and parse_query: a query without atoms is accepted.
WellFormed(atom) == atom.field # "" /\ atom.pattern \in Compiled

Parses(t) == t # Broken /\ \A r \in t : \A atom \in r.query : WellFormed(atom)

\* values_for_field: a field of another name has no values.
ValuesForField(data, f) == IF f \in DOMAIN ColumnOf THEN data[ColumnOf[f]] ELSE {}

\* Matcher::matches of any atom.
Matches(r, data) ==
    \E atom \in r.query : \E v \in ValuesForField(data, atom.field) : <<v, atom.pattern>> \in Found

\* match_metadata: each category once.
MatchMetadata(t, data) == {r.target : r \in {q \in t : Matches(q, data)}}

FiledUnder(categories) == IF categories = {} THEN {Unmatched} ELSE categories

\* metadata_from_import: an import says no venue.
FromImport(data) == [data EXCEPT !["venue"] = {}]

-----------------------------------------------------------------------------
(* The rules window *)

\* read_rules_text; while the file is being saved the window does not read.
ShowRules ==
    /\ rulesWindow = "open"
    /\ draft' = IF rulesFile = "whole" THEN rules ELSE {}
    /\ UNCHANGED <<rulesOnDisk, rulesWindow, saved, byHand, cutOff, importing>>

\* write_rules_text: a text that does not parse is refused.
SaveRules(t) ==
    /\ rulesWindow = "open" /\ Parses(t)
    /\ rulesWindow' = "empty" /\ draft' = t
    /\ UNCHANGED <<rulesOnDisk, saved, byHand, cutOff, importing>>

\* fs::write empties the file ...
EmptyRules ==
    /\ rulesWindow = "empty"
    /\ rulesWindow' = "write" /\ rulesFile' = "empty" /\ rules' = {}
    /\ UNCHANGED <<draft, saved, byHand, cutOff, importing>>

\* ... and writes it.
WriteRules ==
    /\ rulesWindow = "write"
    /\ rulesWindow' = "tell" /\ rulesFile' = "whole" /\ rules' = draft
    /\ saved' = draft
    /\ UNCHANGED <<draft, byHand, cutOff, importing>>

\* RulesChanged.
TellRules ==
    /\ rulesWindow = "tell" /\ rulesWindow' = "open"
    /\ UNCHANGED <<rulesOnDisk, draft, saved, byHand, cutOff, importing>>

\* The write fails, or the daemon is killed and started anew: what was written of the
\* text has fewer rules, or ends in the middle of one.
SaveFails ==
    /\ rulesWindow # "open" /\ rulesWindow' = "open"
    /\ IF rulesWindow = "write"
       THEN /\ rulesFile' = "whole" /\ cutOff' = TRUE
            /\ rules' \in {Broken} \cup SUBSET draft
       ELSE UNCHANGED <<rulesOnDisk, cutOff>>
    /\ UNCHANGED <<draft, saved, byHand, importing>>

EditRules(t) ==
    /\ rulesFile' = "whole" /\ rules' = t /\ saved' = t /\ byHand' = TRUE
    /\ cutOff' = (cutOff \/ rulesWindow = "write")
    /\ UNCHANGED <<rulesWindow, draft, importing>>

-----------------------------------------------------------------------------
(* Imports *)

BeginImport(i, data) ==
    /\ phase[i] = "new"
    /\ phase' = [phase EXCEPT ![i] = "load"]
    /\ metadata' = [metadata EXCEPT ![i] = FromImport(data)]
    /\ UNCHANGED <<rulesEdited, matched, governing, astray>>

\* RuleSet::load and match_metadata; no file is no rules, and so is an empty one.
LoadRules(i) ==
    /\ phase[i] = "load"
    /\ IF Parses(rules)
       THEN /\ phase' = [phase EXCEPT ![i] = "file"]
            /\ matched' = [matched EXCEPT ![i] = MatchMetadata(rules, metadata[i])]
       ELSE phase' = [phase EXCEPT ![i] = "failed"] /\ UNCHANGED matched
    /\ governing' = [governing EXCEPT ![i] = saved]
    /\ astray' = IF cutOff \/ rulesWindow = "write" THEN astray \cup {i} ELSE astray
    /\ UNCHANGED <<rulesEdited, metadata>>

\* import_connector_item_with_categories.
FileImport(i) ==
    /\ phase[i] = "file"
    /\ phase' = [phase EXCEPT ![i] = "filed"]
    /\ matched' = [matched EXCEPT ![i] = FiledUnder(@)]
    /\ UNCHANGED <<rulesEdited, metadata, governing, astray>>

\* No title, a lock that is held, or an error on the way.
FailImport(i) ==
    /\ phase[i] \in {"load", "file"}
    /\ phase' = [phase EXCEPT ![i] = "failed"]
    /\ UNCHANGED <<rulesEdited, metadata, matched, governing, astray>>

FilingNext ==
    \/ ShowRules \/ EmptyRules \/ WriteRules \/ TellRules \/ SaveFails
    \/ \E t \in Text : SaveRules(t) \/ EditRules(t)
    \/ \E i \in Imports : \/ \E data \in Metadata : BeginImport(i, data)
                          \/ LoadRules(i) \/ FileImport(i) \/ FailImport(i)

FilingSpec == FilingInit /\ [][FilingNext]_filing

-----------------------------------------------------------------------------
(* An import is filed by the rules that were last saved when it began, and *)
(* under Unmatched only when they say nothing of it; but for an import     *)
(* that reads the file while it is being saved, or after a save that was   *)
(* cut off.                                                                *)
FiledByRules ==
    \A i \in Imports \ astray : phase[i] = "filed" =>
        matched[i] = FiledUnder(MatchMetadata(governing[i], metadata[i]))

(* Saves leave rules that parse: an import fails for its rules only after  *)
(* an edit by hand, or a save that was cut off.                            *)
RulesParse == byHand \/ cutOff \/ Parses(rules)

(* An item that is filed is under some category.                           *)
Reachable == \A i \in Imports : phase[i] = "filed" => matched[i] # {}
=============================================================================
