------------------------- MODULE MCPetitionRewrite -------------------------
EXTENDS PetitionRewrite, TLC
CONSTANTS s1, s2, NoOne

\* Labels in Telugu share one slug and their default category.
MCSlugOf == [what |-> "what", property |-> "property",
             telugu1 |-> "detail", telugu2 |-> "detail"]
MCCategoryFor == [l \in DOMAIN MCSlugOf |-> "what"]
MCCategoryOrder == [what |-> 1]
MCCompound == {"specific_offence"}
MCBracketed == {}

\* A complaint in English with two gaps, about one of which the checklist is
\* surer and graver than the parser, one in Telugu with gaps worded in Telugu,
\* and one without a text to work from.
Gap(label, status) == [label |-> label, status |-> status]
Parse(present, gaps, text, basis, language) ==
  [present |-> present, uncertain |-> {}, text |-> text, offence |-> "theft",
   gaps |-> gaps, basis |-> basis, language |-> language]
Described == {"property", "identifier"}
MCParsedOutputs ==
  {Parse({}, <<Gap("what", "missing"), Gap("property", "uncertain")>>, {},
         "refined", "english"),
   Parse({"what"}, <<Gap("telugu1", "uncertain"), Gap("telugu2", "missing")>>,
         Described, "raw", "telugu"),
   Parse({}, <<Gap("what", "missing")>>, {}, "none", "telugu")}

MCQuestions ==
  <<[question |-> "property", label |-> "property", category |-> "specific_offence",
     severity |-> "mandatory", kind |-> "property", topics |-> {},
     purpose |-> {"petition"}, offence |-> "theft"]>>
MCRequests == 1..2
MCWorked == {1}
MCEvaluated == {2}
\* A disturbed packet promises nothing more: its later states are not searched.
Undisturbed == disturbed = {}
\* Nothing tests which of the statuses that hold approval back a translation
\* has, which of those that hold the merge back a value has, the consent copied
\* to the request, whether a petitioner refused or was not asked, or whether a
\* translation is about a stale draft; a complaint in English needs no review of
\* its translation.  Of the returned values only how many are final is tested,
\* and of the packets no officer works on only the record and the status.
Held(status) ==
  status \notin {"passed", "override"} \/ parsed.language = "english"
Translated(r) == request[r].translated \/ parsed.language = "english"
Final(r) == {p \in Placeholders(r) : values[r][p] \in FinalAcceptable}
Told ==
  [r \in Requests |->
     CASE ~Created(r)  -> <<>>
       [] r \in Worked ->
            <<request[r].record, request[r].status, Held(request[r].semantic),
              Translated(r), draft[r], Cardinality(Final(r))>>
       [] OTHER        -> <<request[r].record, request[r].status>>]
Signed ==
  [r \in Requests |->
     IF verification[r] # None /\ verification[r].consent = "verified"
     THEN verification[r].d ELSE 0]
ToldTxn ==
  [s \in Sessions |->
     CASE txn[s].op = "approve" -> [txn[s] EXCEPT !.semantic = Held(@)]
       [] txn[s].op = "translate" -> [op |-> "translate", r |-> txn[s].r]
       [] OTHER -> txn[s]]
\* The active questions change at any time: they are told apart where a
\* creation or an evaluation may read them.
Asked ==
  IF \/ \E rec \in 0..records :
          /\ ResolveRewriteParseRecord(rec)
          /\ \A r \in Requests : IsActive(r) => request[r].record # rec
     \/ \E s \in Sessions : txn[s].op = "checklist"
  THEN active ELSE {}
View == <<parsed, records, Asked, Told, Signed, [r \in Evaluated |-> batches[r]],
          ToldTxn, history>>
Symmetry == Permutations({s1, s2})
=============================================================================
