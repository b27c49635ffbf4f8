----------------------------- MODULE TopicFilter -----------------------------
(***************************************************************************)
(* topic_filter_matches_topic, the loop that decides whether a topic       *)
(* filter matches a topic, against MQTT's definition of matching level by  *)
(* level.  Topics and filters are sequences of characters: what can go     *)
(* wrong is where the separators and the wildcards stand.                  *)
(***************************************************************************)
EXTENDS Naturals, SequencesExt

CONSTANTS
    Character,       \* ordinary characters
    MaxTopicLength,  \* bound on the length of a topic
    MaxFilterLength  \* bound on the length of a topic filter

ASSUME TFConstantsAssumption ==
    /\ Character \cap {"/", "+", "#"} = {}
    /\ MaxTopicLength \in Nat
    /\ MaxFilterLength \in Nat

VARIABLES topic, topic_filter, t_idx, tf_idx, result

TFvars == <<topic, topic_filter, t_idx, tf_idx, result>>

-----------------------------------------------------------------------------
(* MQTT's definition                                                        *)

\* The levels of what is left of s, from each of its characters on: a separator
\* ends a level, which may be empty, and there is always a last one.
LevelsFrom(s) ==
    LET from[i \in 1 .. Len(s) + 1] ==
            IF i = Len(s) + 1 THEN << <<>> >>
            ELSE IF s[i] = "/" THEN << <<>> >> \o from[i + 1]
            ELSE [from[i + 1] EXCEPT ![1] = <<s[i]>> \o @]
    IN  from

Levels(s) == LevelsFrom(s)[1]

\* + stands for any one level, # for the parent level and all levels below it.
LevelsMatch(fs, ts) ==
    LET fixed == IF Last(fs) = <<"#">> THEN Len(fs) - 1 ELSE Len(fs)
    IN  /\ IF Last(fs) = <<"#">> THEN Len(ts) >= fixed ELSE Len(ts) = fixed
        /\ \A k \in 1 .. fixed : fs[k] \in {<<"+">>, ts[k]}

Matches(f, t) == LevelsMatch(Levels(f), Levels(t))

EndsInHash(f) == Last(f) = "#"

\* A wildcard occupies a level of its own, and # is the last one.
WellFormed(f) ==
    /\ Len(f) > 0
    /\ \A i \in 1 .. Len(f) : f[i] \in {"+", "#"} =>
           /\ i = 1 \/ f[i - 1] = "/"
           /\ i = Len(f) \/ (f[i] = "+" /\ f[i + 1] = "/")

Topic == BoundedSeq(Character \cup {"/"}, MaxTopicLength) \ {<<>>}

TopicFilters == {f \in BoundedSeq(Character \cup {"/", "+", "#"}, MaxFilterLength) : WellFormed(f)}

-----------------------------------------------------------------------------
(* The code                                                                 *)

TFInit ==
    /\ topic \in Topic
    /\ topic_filter \in TopicFilters
    /\ t_idx = 0
    /\ tf_idx = 0
    /\ result = "running"

InLoop ==
    /\ result = "running"
    /\ t_idx < Len(topic)
    /\ tf_idx < Len(topic_filter)

\* Indices of the code start at 0, those of a sequence at 1.
tf_char == topic_filter[tf_idx + 1]

t_char == topic[t_idx + 1]

\* Mutant: the separator is taken with the level, at the end as well.
EndOfLevel_with_separator ==
    1 + CHOOSE i \in t_idx .. Len(topic) :
        /\ i = Len(topic) \/ topic[i + 1] = "/"
        /\ \A j \in t_idx .. (i - 1) : topic[j + 1] # "/"

\* Where the inner while loop stops: at the next separator or the end.
EndOfLevel ==
    CHOOSE i \in t_idx .. Len(topic) :
        /\ i = Len(topic) \/ topic[i + 1] = "/"
        /\ \A j \in t_idx .. (i - 1) : topic[j + 1] # "/"

\* case '+': nothing is consumed of a level that is empty.
single_level_wildcard ==
    /\ InLoop
    /\ tf_char = "+"
    /\ t_idx' = EndOfLevel
    /\ tf_idx' = tf_idx + 1
    /\ UNCHANGED <<topic, topic_filter, result>>

\* case '#'.
multi_level_wildcard ==
    /\ InLoop
    /\ tf_char = "#"
    /\ result' = "match"
    /\ UNCHANGED <<topic, topic_filter, t_idx, tf_idx>>

\* case '/' and default.
regular_character ==
    /\ InLoop
    /\ tf_char \notin {"+", "#"}
    /\ \/ /\ t_char # tf_char
          /\ result' = "no match"
          /\ UNCHANGED <<t_idx, tf_idx>>
       \/ /\ t_char = tf_char
          /\ t_idx' = t_idx + 1
          /\ tf_idx' = tf_idx + 1
          /\ UNCHANGED result
    /\ UNCHANGED <<topic, topic_filter>>

\* Mutant: what is left of the filter is not looked at.
BothExhausted_topic_only == t_idx = Len(topic)

BothExhausted == t_idx = Len(topic) /\ tf_idx = Len(topic_filter)

\* Mutant: a filter is never cut short by the end of the topic.
EndsInSlashHash_never == FALSE

\* The filter is not used up and ends in "/#".
EndsInSlashHash ==
    /\ tf_idx < Len(topic_filter) - 1
    /\ SubSeq(topic_filter, Len(topic_filter) - 1, Len(topic_filter)) = <<"/", "#">>

\* Behind the loop.
after_loop ==
    /\ result = "running"
    /\ ~InLoop
    /\ result' = IF BothExhausted \/ EndsInSlashHash THEN "match" ELSE "no match"
    /\ UNCHANGED <<topic, topic_filter, t_idx, tf_idx>>

TFNext ==
    \/ single_level_wildcard
    \/ multi_level_wildcard
    \/ regular_character
    \/ after_loop

TFSpec == TFInit /\ [][TFNext]_TFvars

-----------------------------------------------------------------------------
(* Properties                                                               *)

\* The indices never leave the strings they index.
TFTypeOK ==
    /\ topic \in Topic
    /\ topic_filter \in TopicFilters
    /\ t_idx \in 0 .. Len(topic)
    /\ tf_idx \in 0 .. Len(topic_filter)
    /\ result \in {"running", "match", "no match"}

\* Without # in the filter, topic_filter_matches_topic finds no match that
\* MQTT does not define.
SoundWithoutHash ==
    (result = "match" /\ ~EndsInHash(topic_filter)) => Matches(topic_filter, topic)

\* For a topic that does not end in an empty level it misses no match, # or not.
CompleteForNonEmptyLastLevel ==
    (result = "no match" /\ Last(topic) # "/") => ~Matches(topic_filter, topic)
=============================================================================
