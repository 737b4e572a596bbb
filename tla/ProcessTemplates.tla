-------------------------- MODULE ProcessTemplates --------------------------
(***************************************************************************)
(* process_templates(templates, vars), f_process_templates.c: puts the     *)
(* values of a JSON object into a text or into the elements of an array.   *)
(* One step is one turn of the scanner's loop, or of the loop over the     *)
(* array.  A text is a sequence of the two delimiters and of pieces        *)
(* between them; Names are the pieces "vars.<key>".                        *)
(***************************************************************************)
EXTENDS Sequences, FiniteSetsExt

CONSTANTS
    Open, Close,    \* {{ and }}
    Pieces,         \* all pieces of texts, the delimiters included
    Names,          \* those that name a variable
    NoText,         \* SQL NULL
    NotObject,      \* vars that are SQL NULL or JSON but no object
    NonScalar,      \* a JSON value that is null, an array or an object
    TemplateCalls   \* arguments: [array, templates, vars]

ASSUME TemplatesAssumption ==
    /\ {Open, Close} \subseteq Pieces /\ Open # Close
    /\ Names \subseteq Pieces \ {Open, Close}
    /\ NoText \notin Seq(Pieces) /\ NonScalar \notin Seq(Pieces)
    /\ \A args \in TemplateCalls :
        /\ args.templates # NoText => args.templates \in Seq(Seq(Pieces) \union {NoText})
        /\ args.vars # NotObject =>
            \A n \in DOMAIN args.vars : args.vars[n] \in Seq(Pieces) \union {NonScalar}

VARIABLES
    call,       \* the arguments; a single text is a sequence of one
    st,         \* parser_state, or where else the function is
    pos,        \* tpl_ptr, as pieces already read
    sinfo,      \* the string buffer
    rendered    \* array_state, or the result

templateVars == <<call, st, pos, sinfo, rendered>>

TemplatesInit ==
    /\ call \in TemplateCalls
    /\ st = "process_templates" /\ pos = 0
    /\ sinfo = <<>> /\ rendered = <<>>

elem == Len(rendered) + 1
tpl == call.templates[elem]

(* NULL templates give NULL.  Without an object to take values from, an    *)
(* array is returned as it is and a text becomes NULL.                     *)
ReturnUnprocessed ==
    /\ st = "process_templates"
    /\ call.templates = NoText \/ call.vars = NotObject
    /\ rendered' = IF call.array THEN call.templates ELSE NoText
    /\ st' = "processed"
    /\ UNCHANGED <<call, pos, sinfo>>

NextTemplate ==
    /\ st = "process_templates"
    /\ call.templates # NoText /\ call.vars # NotObject
    /\ IF Len(rendered) = Len(call.templates)
       THEN st' = "processed" /\ UNCHANGED rendered
       ELSE IF tpl = NoText
       THEN rendered' = Append(rendered, NoText) /\ UNCHANGED st
       ELSE st' = "ST_NORMAL" /\ UNCHANGED rendered
    /\ pos' = 0 /\ sinfo' = <<>>
    /\ UNCHANGED call

(* The places where memmem may find a delimiter. *)
Ahead(delimiter) == {k \in (pos + 1)..Len(tpl) : tpl[k] = delimiter}

AppendTail ==
    /\ sinfo' = sinfo \o SubSeq(tpl, pos + 1, Len(tpl))
    /\ pos' = Len(tpl)

FindStart ==
    /\ st = "ST_NORMAL" /\ pos < Len(tpl)
    /\ IF Ahead(Open) = {} THEN AppendTail /\ UNCHANGED st
       ELSE /\ sinfo' = sinfo \o SubSeq(tpl, pos + 1, Min(Ahead(Open)) - 1)
            /\ pos' = Min(Ahead(Open))
            /\ st' = "ST_PLACEHOLDER"
    /\ UNCHANGED <<call, rendered>>

(* What a placeholder is replaced with: nothing if its text is no name, or *)
(* has no value, or one that is not a scalar.                              *)
Value(vars, name) ==
    IF \E n \in Names : name = <<n>> /\ n \in DOMAIN vars /\ vars[n] # NonScalar
    THEN vars[name[1]]
    ELSE <<>>

(* Fault: a placeholder that is no name leaves the parser's state as it is. *)
FindEndKeepsState ==
    /\ st = "ST_PLACEHOLDER" /\ pos < Len(tpl)
    /\ IF Ahead(Close) = {} THEN AppendTail /\ UNCHANGED st
       ELSE LET value == Value(call.vars, SubSeq(tpl, pos + 1, Min(Ahead(Close)) - 1)) IN
            /\ sinfo' = sinfo \o value
            /\ pos' = Min(Ahead(Close))
            /\ st' = IF value = <<>> THEN st ELSE "ST_NORMAL"
    /\ UNCHANGED <<call, rendered>>

(* Fault: an unknown variable's placeholder is left open. *)
FindEndStaysOpen ==
    /\ st = "ST_PLACEHOLDER" /\ pos < Len(tpl)
    /\ IF Ahead(Close) = {} THEN AppendTail /\ UNCHANGED st
       ELSE LET value == Value(call.vars, SubSeq(tpl, pos + 1, Min(Ahead(Close)) - 1)) IN
            /\ sinfo' = IF value = <<>>
                        THEN sinfo \o SubSeq(tpl, pos, Min(Ahead(Close)))
                        ELSE sinfo \o value
            /\ pos' = Min(Ahead(Close))
            /\ st' = "ST_NORMAL"
    /\ UNCHANGED <<call, rendered>>

(* A placeholder that is not closed loses its {{ only. *)
FindEnd ==
    /\ st = "ST_PLACEHOLDER" /\ pos < Len(tpl)
    /\ IF Ahead(Close) = {} THEN AppendTail /\ UNCHANGED st
       ELSE /\ sinfo' = sinfo \o Value(call.vars, SubSeq(tpl, pos + 1, Min(Ahead(Close)) - 1))
            /\ pos' = Min(Ahead(Close))
            /\ st' = "ST_NORMAL"
    /\ UNCHANGED <<call, rendered>>

EndOfTemplate ==
    /\ st \in {"ST_NORMAL", "ST_PLACEHOLDER"} /\ pos = Len(tpl)
    /\ rendered' = Append(rendered, sinfo)
    /\ st' = "process_templates"
    /\ UNCHANGED <<call, pos, sinfo>>

TemplatesNext ==
    \/ ReturnUnprocessed \/ NextTemplate
    \/ FindStart \/ FindEnd \/ EndOfTemplate

TemplatesSpec == TemplatesInit /\ [][TemplatesNext]_templateVars

----------------------------------------------------------------------------
(* What is left of a template from each place on, read piece by piece.     *)
RenderedFrom(t, vars) ==
    LET from[k \in 1..(Len(t) + 1)] ==
        IF k > Len(t) THEN <<>>
        ELSE IF t[k] # Open THEN <<t[k]>> \o from[k + 1]
        ELSE LET ends == {j \in k..Len(t) : t[j] = Close} IN
             IF ends = {} THEN SubSeq(t, k + 1, Len(t))
             ELSE Value(vars, SubSeq(t, k + 1, Min(ends) - 1)) \o from[Min(ends) + 1]
    IN from

(* What a template stands for. *)
Rendering(t, vars) == RenderedFrom(t, vars)[1]

(* Every element becomes its rendering, NULLs stay, and nothing of one     *)
(* element gets into another; values are copied as they are, whatever they *)
(* look like (f_process_templates.c:63-81, 116-197).                       *)
TemplatesRendered ==
    (st = "processed" /\ call.templates # NoText /\ call.vars # NotObject) =>
        /\ Len(rendered) = Len(call.templates)
        /\ \A k \in DOMAIN rendered :
              rendered[k] = IF call.templates[k] = NoText THEN NoText
                            ELSE Rendering(call.templates[k], call.vars)

(* A text that still has a placeholder in it. *)
HasPlaceholder(t) == \E j, k \in 1..Len(t) : j < k /\ t[j] = Open /\ t[k] = Close

(* Values without delimiters. *)
PlainValues ==
    \A n \in DOMAIN call.vars : call.vars[n] # NonScalar =>
        \A k \in 1..Len(call.vars[n]) : call.vars[n][k] \notin {Open, Close}

(* No placeholder survives, be its name unknown, its value not a scalar,   *)
(* its text no name or another {{ inside it; only a value could bring one  *)
(* (f_process_templates.c:123-163).                                        *)
NoPlaceholderLeft ==
    (call.templates # NoText /\ call.vars # NotObject /\ PlainValues) =>
        \A k \in 1..Len(rendered) : rendered[k] # NoText => ~HasPlaceholder(rendered[k])
============================================================================
