----------------------------- MODULE MCDriving -----------------------------
(* Driving.tla for TLC.  Each trip has a controller and the messages that  *)
(* matter to it; what it does not read is held at one value.  The integral *)
(* gains are larger than those of rover.go, so that the limits are reached *)
(* within a few steps (every gain is an option of the program).            *)
EXTENDS Driving

Low == -70
Middle == 0
High == 70

Inputs(steering, dial, switch, reference) ==
    [source : {"Input"}, steering : steering, dial : dial, switch : switch,
     reference : reference]
Positions(knots, degrees) == [source : {"RMC"}, knots : knots, degrees : degrees]
Signs(sources) == [source : sources]

Sliders == {Absent, Low, Middle, High}

MCTrips ==
    [speed |->
        [controller |-> "speed",
         messages |-> Inputs({0}, {Absent, 0, 93}, Sliders, {2}) \cup Positions({0, 12}, {0})],
     rot |->
        [controller |-> "rot",
         messages |-> Inputs({Absent, 0, 93}, {-93, 93}, Sliders, {2})
                      \cup [source : {"IMU"}, rate : {0, 1500}]],
     heading |->
        [controller |-> "heading",
         messages |-> Inputs({0, 93}, {0}, {Middle, High}, {2})
                      \cup Positions({0}, {0, 130, 260})],
     dial |->
        [controller |-> "sysident",
         messages |-> Inputs({0}, {Absent, -127, 127}, Sliders, {0, 2})],
     fix |->
        [controller |-> "sysident",
         messages |-> Positions({0}, {0}) \cup [source : {"GGA"}, satellites : {5, 6}]
                      \cup Signs({"VTG"})],
     signs |->
        [controller |-> "sysident",
         messages |-> Signs({"Heartbeat", "Pong"})]]

Pid(p, i, d, dead, low, high, limit) ==
    [Kp |-> p, Ki |-> i, Kd |-> d, Deadband |-> dead,
     UMin |-> low, UMax |-> high, TiLimit |-> limit]

MCGains ==
    [speed   |-> Pid(38, 150, 0, 82, 0, 750, 225),
     rot     |-> Pid(112, 50, 0, 0, -750, 750, 150),
     heading |-> Pid(750, 600, 50, 0, -225, 225, 150)]
=============================================================================
