----------------------------- MODULE MCCronRunner -----------------------------
(* CronRunner with a job that fires every unit of time, one that fires every *)
(* third, and one whose date comes once and not again within a year.         *)
EXTENDS CronRunner

MCTime == 0..MaxTime
Every == [t \in MCTime |-> t + 1]
Third == [t \in MCTime |-> 3 * (t \div 3) + 3]
Leap  == [t \in MCTime |-> IF t < 1 THEN 1 ELSE 0]

TwoSchedules == {"every", "third"}
MCTwo == [s \in TwoSchedules |-> IF s = "every" THEN Every ELSE Third]
LeapSchedules == {"every", "leap"}
MCLeap == [s \in LeapSchedules |-> IF s = "every" THEN Every ELSE Leap]
=============================================================================
