------------------------------ MODULE MCRadar ------------------------------
(* Three issues of two teams, one of them an epic, that wait for each other,
   and a subtask of one of them that is none of them. *)
EXTENDS Radar
MCTeam  == "e" :> "x" @@ "a" :> "x" @@ "b" :> "y"
MCEpic  == "e" :> "-" @@ "a" :> "e" @@ "b" :> "-"
MCLinks == "e" :> {[key |-> "b", relation |-> "relates", team |-> None]}
        @@ "a" :> {[key |-> "b", relation |-> "blocked_by", team |-> None]}
        @@ "b" :> {[key |-> "a", relation |-> "blocks", team |-> "z"]}
MCSubtasks == "e" :> {} @@ "a" :> {}
           @@ "b" :> {[key |-> "a", active |-> TRUE,  done |-> FALSE],
                      [key |-> "s", active |-> FALSE, done |-> FALSE]}
MCScope == "all" :> {"e", "a", "b"} @@ "part" :> {"e"}

InStatus(parts) == [resolved |-> None, ended |-> FALSE, age |-> parts,
                    updated |-> Most(0, Now - CeilDiv(parts, Part))]
ClosedAt(day)   == [resolved |-> day, ended |-> TRUE, age |-> 0, updated |-> day]

(* Ages in half days: 30.5, between the short buckets and the long ones, and 41,
   where the last of these begins; closures on the first day of the quarter and
   on the last day before this month. *)
MCInitial == {"e" :> InStatus(16) @@ "a" :> InStatus(82) @@ "b" :> InStatus(61),
              "e" :> InStatus(16) @@ "a" :> ClosedAt(11) @@ "b" :> ClosedAt(4)}

(* What else Jira says of them; all are shown with the same person. *)
MCField ==
    "e" :> [status |-> "in progress", bucket |-> "in_work", person |-> "p", assigned |-> FALSE,
            started |-> FALSE, points |-> FALSE, due |-> Now + 2,
            dev |-> 6, test |-> 8, pause |-> 24, moves |-> 9, statuses |-> 4]
 @@ "a" :> [status |-> "paused", bucket |-> "open_questions", person |-> "p", assigned |-> TRUE,
            started |-> TRUE, points |-> TRUE, due |-> None,
            dev |-> 2, test |-> 0, pause |-> 60, moves |-> 3, statuses |-> 3]
 @@ "b" :> [status |-> "testing", bucket |-> "in_test", person |-> "p", assigned |-> TRUE,
            started |-> TRUE, points |-> TRUE, due |-> Now - 3,
            dev |-> 4, test |-> 32, pause |-> 44, moves |-> 12, statuses |-> 6]
=============================================================================
